---- MODULE Spec2Model ----
(***************************************************************************)
(* Model of DisReserv's prism volume-integral engine (compaction.py):      *)
(* field_component with its validation, the corner summation of            *)
(* jit_field_component, the eighteen kernels, and the prism mesh builders. *)
(*                                                                         *)
(* Numbers.  The code computes in float64.  The model computes exactly:    *)
(*  - coordinates and pressures are fixed-point numbers with one binary    *)
(*    digit after the point: the integer n stands for n/2, so that the     *)
(*    mid-depth 0.5*(z2+z1) of a prism with integer bounds is a number of  *)
(*    the model (Fix, FixMul);                                             *)
(*  - a kernel value is a formal linear combination (Lin) of the values    *)
(*    of safe_log, safe_atan2 and of the quotients of the correction       *)
(*    kernels at given arguments ("atoms"); the cases in which the code    *)
(*    returns an exact 0 or +-pi/2, or divides by zero, are computed;      *)
(*  - the mesh builders compute in exact rationals (Rat).                  *)
(* Two results that are equal in the model are equal in real arithmetic;   *)
(* floating-point rounding is outside the model.                           *)
(***************************************************************************)
EXTENDS Integers, Sequences, FiniteSets, TLC

VARIABLES
    calls,          \* the calls the caller makes, in order (argument records)
    returns,        \* the outcome of every call made so far, in order
    pc,             \* position inside field_component
    kernel,         \* field_component's arguments and locals ...
    coordinates,
    prisms,
    pressure,
    material,
    disable_checks,
    cast,           \* np.broadcast(*coordinates[:3]): size and shape
    result,         \* the output array (jit_field_component's out)
    l,              \* loop index over computation points (0-based)
    m,              \* loop index over prisms (0-based)
    visits,         \* how often each (l, m, i, j, k) was accumulated
    oob,            \* an array was indexed past its end
    scaled,         \* the factors result was multiplied by, in order
    error,          \* the exception raised, if any
    builds,         \* the mesh-builder calls the caller makes, in order
    layers,         \* the outcome of every mesh-builder call made so far
    mesh,           \* the frame of the running mesh builder: position and locals
    forms,          \* the calls of the grouped forms the caller makes, in order
    triples,        \* the outcome of every grouped-form call made so far
    group,          \* the frame of the running grouped form: position and locals
    probes,         \* the direct calls of kernels and of geertsma.py's functions
                    \* the caller makes, in order: function name and arguments
    values          \* the outcome of every direct call made so far, in order

field_vars == <<calls, returns, pc, kernel, coordinates, prisms, pressure, material,
          disable_checks, cast, result, l, m, visits, oob, scaled, error>>

mesh_vars == <<builds, layers, mesh>>

form_vars == <<forms, triples, group>>

pure_vars == <<probes, values>>

vars == <<field_vars, mesh_vars, form_vars, pure_vars>>

-----------------------------------------------------------------------------
(* Bounds of the model *)

MaxPrisms == 2
MaxPressure == 2
MaxPoints == 2

-----------------------------------------------------------------------------
(* Fixed-point numbers: n stands for n/2 *)

Fix(v) == 2 * v

FixMul(a, b) == (a * b) \div 2

Abs(n) == IF n < 0 THEN -n ELSE n

Sgn(n) == IF n > 0 THEN 1 ELSE IF n < 0 THEN -1 ELSE 0

-----------------------------------------------------------------------------
(* Formal linear combinations of atoms with fixed-point coefficients.      *)
(* An atom is a 4-tuple <<function, a, b, rho2>>:                          *)
(*   <<"log", a, 0, rho2>>    log(a + sqrt(rho2))                           *)
(*   <<"atan", n, c, rho2>>   arctan(n / (c * sqrt(rho2))),  n > 0, c > 0  *)
(*   <<"quot", n, c, rho2>>   n / (sqrt(rho2) * c),          n > 0, c > 0  *)
(*   <<"halfpi", 0, 0, 0>>    pi / 2                                        *)

LinZero == [a \in {} |-> 0]

LinAtom(a) == [b \in {a} |-> Fix(1)]

LinCoef(f, a) == IF a \in DOMAIN f THEN f[a] ELSE 0

LinAdd(f, g) ==
    LET D == DOMAIN f \cup DOMAIN g
        N == {a \in D : LinCoef(f, a) + LinCoef(g, a) # 0}
    IN  [a \in N |-> LinCoef(f, a) + LinCoef(g, a)]

\* the product of the fixed-point number c and the combination f
LinScale(c, f) ==
    IF c = 0 THEN LinZero ELSE [a \in DOMAIN f |-> FixMul(c, f[a])]

\* the product of the integer n (a sign, a count) and the combination f
LinTimes(n, f) ==
    IF n = 0 THEN LinZero ELSE [a \in DOMAIN f |-> n * f[a]]

LinNeg(f) == LinTimes(-1, f)

-----------------------------------------------------------------------------
(* Numeric primitives *)

\* safe_log(a + rho), rho = sqrt(rho2): 0 when the argument is 0 (its
\* magnitude is below 1e-10), which for rho >= |a| means a <= 0 and rho = -a
safe_log(a, rho2) ==
    IF a <= 0 /\ a * a = rho2
    THEN LinZero
    ELSE LinAtom(<<"log", a, 0, rho2>>)

\* safe_atan2(numerator, c * rho), rho = sqrt(rho2)
safe_atan2(numerator, c, rho2) ==
    IF c # 0 /\ rho2 # 0
    THEN IF numerator = 0
         THEN LinZero
         ELSE LinTimes(Sgn(numerator) * Sgn(c),
                       LinAtom(<<"atan", Abs(numerator), Abs(c), rho2>>))
    ELSE IF numerator > 0 THEN LinAtom(<<"halfpi", 0, 0, 0>>)
    ELSE IF numerator < 0 THEN LinNeg(LinAtom(<<"halfpi", 0, 0, 0>>))
    ELSE LinZero

\* numerator / (rho * c), rho = sqrt(rho2): a float division, which raises
\* ZeroDivisionError in compiled code when the denominator is 0
Quotient(numerator, c, rho2) ==
    IF c = 0 \/ rho2 = 0
    THEN [exc |-> "ZeroDivisionError", val |-> LinZero]
    ELSE [exc |-> "",
          val |-> IF numerator = 0
                  THEN LinZero
                  ELSE LinTimes(Sgn(numerator) * Sgn(c),
                                LinAtom(<<"quot", Abs(numerator), Abs(c), rho2>>))]

Value(v) == [exc |-> "", val |-> v]

-----------------------------------------------------------------------------
(* The eighteen kernels.  Arguments: a prism corner (y, x, z), the prism's *)
(* mid-depth zc and a computation point (yp, xp, zp).  A kernel returns    *)
(* [exc, val]: the exception it raises ("" for none) and its value.        *)

kernel_d_x1(y, x, z, zc, yp, xp, zp) ==
    LET Y == y - yp
        X == x - xp
        Z == z - zp
        rho2 == Y * Y + X * X + Z * Z
    IN  Value(LinAdd(LinAdd(LinScale(Y, safe_log(Z, rho2)),
                         LinScale(Z, safe_log(Y, rho2))),
                  LinNeg(LinScale(X, safe_atan2(Y * Z, X, rho2)))))

kernel_d_y1(y, x, z, zc, yp, xp, zp) ==
    LET Y == y - yp
        X == x - xp
        Z == z - zp
        rho2 == Y * Y + X * X + Z * Z
    IN  Value(LinAdd(LinAdd(LinScale(X, safe_log(Z, rho2)),
                         LinScale(Z, safe_log(X, rho2))),
                  LinNeg(LinScale(Y, safe_atan2(X * Z, Y, rho2)))))

kernel_d_z1(y, x, z, zc, yp, xp, zp) ==
    LET Y == y - yp
        X == x - xp
        Z == z - zp
        rho2 == Y * Y + X * X + Z * Z
    IN  Value(LinAdd(LinAdd(LinScale(X, safe_log(Y, rho2)),
                         LinScale(Y, safe_log(X, rho2))),
                  LinNeg(LinScale(Z, safe_atan2(X * Y, Z, rho2)))))

kernel_d_x2(y, x, z, zc, yp, xp, zp) ==
    LET Y == y - yp
        X == x - xp
        Z == z - zp - FixMul(Fix(2), zc)
        rho2 == Y * Y + X * X + Z * Z
    IN  Value(LinAdd(LinAdd(LinScale(Y, safe_log(Z, rho2)),
                         LinScale(Z, safe_log(Y, rho2))),
                  LinNeg(LinScale(X, safe_atan2(Y * Z, X, rho2)))))

kernel_d_y2(y, x, z, zc, yp, xp, zp) ==
    LET Y == y - yp
        X == x - xp
        Z == z - zp - FixMul(Fix(2), zc)
        rho2 == Y * Y + X * X + Z * Z
    IN  Value(LinAdd(LinAdd(LinScale(X, safe_log(Z, rho2)),
                         LinScale(Z, safe_log(X, rho2))),
                  LinNeg(LinScale(Y, safe_atan2(X * Z, Y, rho2)))))

\* the image depth taken once: Z = z - zp - zc
kernel_d_z2_single_offset(y, x, z, zc, yp, xp, zp) ==
    LET Y == y - yp
        X == x - xp
        Z == z - zp - zc
        rho2 == Y * Y + X * X + Z * Z
    IN  Value(LinAdd(LinAdd(LinScale(X, safe_log(Y, rho2)),
                         LinScale(Y, safe_log(X, rho2))),
                  LinNeg(LinScale(Z, safe_atan2(X * Y, Z, rho2)))))

kernel_d_z2(y, x, z, zc, yp, xp, zp) ==
    LET Y == y - yp
        X == x - xp
        Z == z - zp - FixMul(Fix(2), zc)
        rho2 == Y * Y + X * X + Z * Z
    IN  Value(LinAdd(LinAdd(LinScale(X, safe_log(Y, rho2)),
                         LinScale(Y, safe_log(X, rho2))),
                  LinNeg(LinScale(Z, safe_atan2(X * Y, Z, rho2)))))

kernel_d_xz2(y, x, z, zc, yp, xp, zp) ==
    LET Y == y - yp
        X == x - xp
        Z == z - zp - FixMul(Fix(2), zc)
        rho2 == Y * Y + X * X + Z * Z
    IN  Value(LinScale(FixMul(Fix(2), zp), safe_log(Y, rho2)))

kernel_d_yz2(y, x, z, zc, yp, xp, zp) ==
    LET Y == y - yp
        X == x - xp
        Z == z - zp - FixMul(Fix(2), zc)
        rho2 == Y * Y + X * X + Z * Z
    IN  Value(LinScale(FixMul(Fix(2), zp), safe_log(X, rho2)))

kernel_d_zz2(y, x, z, zc, yp, xp, zp) ==
    LET Y == y - yp
        X == x - xp
        Z == z - zp - FixMul(Fix(2), zc)
        rho2 == Y * Y + X * X + Z * Z
    IN  Value(LinScale(FixMul(Fix(2), zp), LinNeg(safe_atan2(X * Y, Z, rho2))))

kernel_s_xz1(y, x, z, zc, yp, xp, zp) ==
    LET Y == y - yp
        X == x - xp
        Z == z - zp
        rho2 == Y * Y + X * X + Z * Z
    IN  Value(safe_log(Y, rho2))

kernel_s_yz1(y, x, z, zc, yp, xp, zp) ==
    LET Y == y - yp
        X == x - xp
        Z == z - zp
        rho2 == Y * Y + X * X + Z * Z
    IN  Value(safe_log(X, rho2))

kernel_s_zz1(y, x, z, zc, yp, xp, zp) ==
    LET Y == y - yp
        X == x - xp
        Z == z - zp
        rho2 == Y * Y + X * X + Z * Z
    IN  Value(LinNeg(safe_atan2(X * Y, Z, rho2)))

kernel_s_xz2(y, x, z, zc, yp, xp, zp) ==
    LET Y == y - yp
        X == x - xp
        Z == z - zp - FixMul(Fix(2), zc)
        rho2 == Y * Y + X * X + Z * Z
    IN  Value(safe_log(Y, rho2))

kernel_s_yz2(y, x, z, zc, yp, xp, zp) ==
    LET Y == y - yp
        X == x - xp
        Z == z - zp - FixMul(Fix(2), zc)
        rho2 == Y * Y + X * X + Z * Z
    IN  Value(safe_log(X, rho2))

kernel_s_zz2(y, x, z, zc, yp, xp, zp) ==
    LET Y == y - yp
        X == x - xp
        Z == z - zp - FixMul(Fix(2), zc)
        rho2 == Y * Y + X * X + Z * Z
    IN  Value(LinNeg(safe_atan2(X * Y, Z, rho2)))

kernel_s_xzz2(y, x, z, zc, yp, xp, zp) ==
    LET Y == y - yp
        X == x - xp
        Z == z - zp - FixMul(Fix(2), zc)
        aux == X * X + Z * Z
        rho2 == Y * Y + aux
        q == Quotient(Y * Z, aux, rho2)
    IN  IF q.exc # "" THEN q
        ELSE Value(LinScale(FixMul(Fix(2), zp), LinNeg(q.val)))

kernel_s_yzz2(y, x, z, zc, yp, xp, zp) ==
    LET Y == y - yp
        X == x - xp
        Z == z - zp - FixMul(Fix(2), zc)
        aux == Y * Y + Z * Z
        rho2 == X * X + aux
        q == Quotient(X * Z, aux, rho2)
    IN  IF q.exc # "" THEN q
        ELSE Value(LinScale(FixMul(Fix(2), zp), LinNeg(q.val)))

kernel_s_zzz2(y, x, z, zc, yp, xp, zp) ==
    LET Y == y - yp
        X == x - xp
        Z == z - zp - FixMul(Fix(2), zc)
        X2 == X * X
        Y2 == Y * Y
        Z2 == Z * Z
        rho2 == X2 + Y2 + Z2
        q1 == Quotient(X * Y, X2 + Z2, rho2)
        q2 == Quotient(X * Y, Y2 + Z2, rho2)
    IN  IF q1.exc # "" THEN q1
        ELSE IF q2.exc # "" THEN q2
        ELSE Value(LinScale(FixMul(Fix(2), zp), LinAdd(q1.val, q2.val)))

\* Cm(poisson, young) = ((1+poisson)*(1-2*poisson))/(young*(1-poisson)):
\* [exc, val] with val the fraction <<numerator, denominator>>; poisson =
\* pn/pd, young an integer.  The division raises ZeroDivisionError in
\* compiled code when young*(1-poisson) is 0
Cm(poisson, young) ==
    LET pn == poisson[1]
        pd == poisson[2]
    IN  IF young * (pd - pn) = 0
        THEN [exc |-> "ZeroDivisionError", val |-> <<0, 1>>]
        ELSE Value(<<(pd + pn) * (pd - 2 * pn), young * (pd - pn) * pd>>)

-----------------------------------------------------------------------------
(* field_component: kernel dispatch *)

\* the dict of field_component: kernel name |-> kernel function
kernels ==
    [
     d_x1 |-> "kernel_d_x1",
     d_y1 |-> "kernel_d_y1",
     d_z1 |-> "kernel_d_z1",
     d_x2 |-> "kernel_d_x2",
     d_y2 |-> "kernel_d_y2",
     d_z2 |-> "kernel_d_z2",
     d_xz2 |-> "kernel_d_xz2",
     d_yz2 |-> "kernel_d_yz2",
     d_zz2 |-> "kernel_d_zz2",
     s_xz1 |-> "kernel_s_xz1",
     s_yz1 |-> "kernel_s_yz1",
     s_zz1 |-> "kernel_s_zz1",
     s_xz2 |-> "kernel_s_xz2",
     s_yz2 |-> "kernel_s_yz2",
     s_zz2 |-> "kernel_s_zz2",
     s_xzz2 |-> "kernel_s_xzz2",
     s_yzz2 |-> "kernel_s_yzz2",
     s_zzz2 |-> "kernel_s_zzz2"
    ]

\* a call of the kernel function fn
KernelCall(fn, y, x, z, zc, yp, xp, zp) ==
    CASE
         fn = "kernel_d_x1" -> kernel_d_x1(y, x, z, zc, yp, xp, zp)
      [] fn = "kernel_d_y1" -> kernel_d_y1(y, x, z, zc, yp, xp, zp)
      [] fn = "kernel_d_z1" -> kernel_d_z1(y, x, z, zc, yp, xp, zp)
      [] fn = "kernel_d_x2" -> kernel_d_x2(y, x, z, zc, yp, xp, zp)
      [] fn = "kernel_d_y2" -> kernel_d_y2(y, x, z, zc, yp, xp, zp)
      [] fn = "kernel_d_z2" -> kernel_d_z2(y, x, z, zc, yp, xp, zp)
      [] fn = "kernel_d_xz2" -> kernel_d_xz2(y, x, z, zc, yp, xp, zp)
      [] fn = "kernel_d_yz2" -> kernel_d_yz2(y, x, z, zc, yp, xp, zp)
      [] fn = "kernel_d_zz2" -> kernel_d_zz2(y, x, z, zc, yp, xp, zp)
      [] fn = "kernel_s_xz1" -> kernel_s_xz1(y, x, z, zc, yp, xp, zp)
      [] fn = "kernel_s_yz1" -> kernel_s_yz1(y, x, z, zc, yp, xp, zp)
      [] fn = "kernel_s_zz1" -> kernel_s_zz1(y, x, z, zc, yp, xp, zp)
      [] fn = "kernel_s_xz2" -> kernel_s_xz2(y, x, z, zc, yp, xp, zp)
      [] fn = "kernel_s_yz2" -> kernel_s_yz2(y, x, z, zc, yp, xp, zp)
      [] fn = "kernel_s_zz2" -> kernel_s_zz2(y, x, z, zc, yp, xp, zp)
      [] fn = "kernel_s_xzz2" -> kernel_s_xzz2(y, x, z, zc, yp, xp, zp)
      [] fn = "kernel_s_yzz2" -> kernel_s_yzz2(y, x, z, zc, yp, xp, zp)
      [] fn = "kernel_s_zzz2" -> kernel_s_zzz2(y, x, z, zc, yp, xp, zp)

\* A selector value is [t, s, hash, eq]: the name of its Python type, its
\* text, whether hash(value) returns (it raises TypeError for a list, dict,
\* set, array, deque, ..., and for a tuple holding one), and the set of str
\* values it hashes and compares equal to: {s} for a str, for an instance of
\* a str subclass and for a str-like object such as collections.UserString,
\* {} for a value that equals no str.
Str(s) == [t |-> "str", s |-> s, hash |-> TRUE, eq |-> {s}]

\* hash(kernel) returns: the dict lookup `kernel in kernels` hashes the
\* selector first and raises TypeError otherwise
Hashable(sel) == sel.hash

\* `kernel in kernels` for a hashable selector: the dict finds a key that
\* the selector hashes and compares equal to, whatever the selector's type
InKernels(sel) == \E k \in DOMAIN kernels : k \in sel.eq

\* kernels[kernel]: the function stored under the key the selector equals
Lookup(sel) == kernels[CHOOSE k \in DOMAIN kernels : k \in sel.eq]

-----------------------------------------------------------------------------
(* field_component: array conversions and validation *)

\* An array argument is [dim, data]: dim 0 a scalar (data its value), dim 1
\* a 1-d array (data its elements), dim 2 a 2-d array (data its rows).
Scalar(v) == [dim |-> 0, data |-> v]
Array1(s) == [dim |-> 1, data |-> s]
Array2(rows) == [dim |-> 2, data |-> rows]

\* np.atleast_1d(a).ravel(): the elements of a scalar or a 1-d array
atleast_1d(a) == IF a.dim = 0 THEN <<a.data>> ELSE a.data

\* np.atleast_2d(a): the rows; a 1-d array is one row
atleast_2d(a) == IF a.dim = 1 THEN <<a.data>> ELSE a.data

\* the shape of a scalar or 1-d array
ShapeOf(a) == IF a.dim = 0 THEN <<>> ELSE <<Len(a.data)>>

SizeOf(shape) == IF shape = <<>> THEN 1 ELSE shape[1]

\* np.broadcast of three scalars or 1-d arrays: [ok, shape, size]; the shapes
\* are compatible when the lengths other than 1 are all the same, and that
\* length (0 for an empty array) is the common length; lengths of 1 only
\* give 1
np_broadcast(c) ==
    LET others == {SizeOf(ShapeOf(c[i])) : i \in 1..3} \ {1}
        n == IF others = {} THEN 1 ELSE CHOOSE k \in others : TRUE
        ok == Cardinality(others) <= 1
        shape == IF \A i \in 1..3 : c[i].dim = 0 THEN <<>> ELSE <<n>>
    IN  [ok |-> ok, shape |-> shape, size |-> n]

\* prisms[mask]: the rows at which the boolean array mask is TRUE
Select(rows, mask) ==
    LET RECURSIVE Sel(_)
        Sel(i) == IF i > Len(rows) THEN <<>>
                  ELSE IF mask[i] THEN <<rows[i]>> \o Sel(i + 1)
                  ELSE Sel(i + 1)
    IN  Sel(1)

\* mask.any()
any(mask) == \E i \in DOMAIN mask : mask[i]

\* the boolean arrays of _check_prisms; a row is <<y1, y2, x1, x2, z2, z1>>
bad_y(rows) == [i \in DOMAIN rows |-> rows[i][1] > rows[i][2]]
bad_x(rows) == [i \in DOMAIN rows |-> rows[i][3] > rows[i][4]]
\* mutant: the two depth columns taken in the other order
bad_z_columns_swapped(rows) == [i \in DOMAIN rows |-> rows[i][5] > rows[i][6]]

bad_z(rows) == [i \in DOMAIN rows |-> rows[i][6] > rows[i][5]]

NoError == [exc |-> "", what |-> "", info |-> <<>>]

\* the three tests made in the order z, x, y
_check_prisms_z_first(rows) ==
    IF any(bad_z(rows))
    THEN [exc |-> "ValueError", what |-> "z1 > z2", info |-> Select(rows, bad_z(rows))]
    ELSE IF any(bad_x(rows))
    THEN [exc |-> "ValueError", what |-> "x1 > x2", info |-> Select(rows, bad_x(rows))]
    ELSE IF any(bad_y(rows))
    THEN [exc |-> "ValueError", what |-> "y1 > y2", info |-> Select(rows, bad_y(rows))]
    ELSE NoError

\* _check_prisms: the exception it raises (NoError for none)
_check_prisms(rows) ==
    IF any(bad_y(rows))
    THEN [exc |-> "ValueError", what |-> "y1 > y2", info |-> Select(rows, bad_y(rows))]
    ELSE IF any(bad_x(rows))
    THEN [exc |-> "ValueError", what |-> "x1 > x2", info |-> Select(rows, bad_x(rows))]
    ELSE IF any(bad_z(rows))
    THEN [exc |-> "ValueError", what |-> "z1 > z2", info |-> Select(rows, bad_z(rows))]
    ELSE NoError

-----------------------------------------------------------------------------
(* jit_field_component: the summation over the corners of one prism *)

\* every corner added with a plus sign
Pow_always_one(b, n) == 1

\* b ** n for b = -1
Pow(b, n) == IF n % 2 = 0 THEN 1 ELSE b

\* (i, j, k) in the order of the three nested loops
Corners ==
    << <<0, 0, 0>>, <<0, 0, 1>>, <<0, 1, 0>>, <<0, 1, 1>>,
       <<1, 0, 0>>, <<1, 0, 1>>, <<1, 1, 0>>, <<1, 1, 1>> >>

\* the corner of prism row P chosen by c = (i, j, k)
y_prism(P, c) == P[2 - c[1]]
x_prism(P, c) == P[4 - c[2]]

\* k selects the fifth column for 0 and the sixth for 1
z_prism_columns_swapped(P, c) == P[5 + c[3]]

z_prism(P, c) == P[6 - c[3]]

\* the fifth column taken for the mid-depth
c_z_fifth_column(P) == P[5]

\* 0.5 * (prisms[m, 4] + prisms[m, 5])
c_z(P) == (P[5] + P[6]) \div 2

\* one execution of `out[l] += ...`: [exc, val] with val the new out[l]
Accumulate(out_l, fn, P, p, c, pt) ==
    LET k == KernelCall(fn, y_prism(P, c), x_prism(P, c), z_prism(P, c),
                        c_z(P), pt[1], pt[2], pt[3])
    IN  IF k.exc # "" THEN k
        ELSE Value(LinAdd(out_l,
                          LinScale(p * Pow(-1, c[1] + c[2] + c[3]), k.val)))

\* the loops over i, j, k for prism row P with pressure p at point pt
RECURSIVE CornerLoop(_, _, _, _, _, _)
CornerLoop(out_l, fn, P, p, pt, n) ==
    IF n > Len(Corners) THEN Value(out_l)
    ELSE LET r == Accumulate(out_l, fn, P, p, Corners[n], pt)
         IN  IF r.exc # "" THEN r
             ELSE CornerLoop(r.val, fn, P, p, pt, n + 1)

\* what a read of element idx (0-based) of array a yields: beyond the end the
\* compiled loop, which checks no bounds, reads whatever lies there (g)
Read(a, idx, g) == IF idx < Len(a) THEN a[idx + 1] ELSE g

Garbage == {Fix(0), Fix(7)}

-----------------------------------------------------------------------------
(* field_component as a process: one action per statement group *)

\* mutant: only too many pressure values are rejected
pressure_mismatch_only_more(size, rows) == size > rows

\* pressure.size != prisms.shape[0]
pressure_mismatch(size, rows) == size # rows

NoCast == [ok |-> FALSE, shape |-> <<>>, size |-> 0]

\* the exception leaves field_component: the caller records it
Raise(e) ==
    /\ error' = e
    /\ returns' = Append(returns, [exc |-> e.exc, what |-> e.what, info |-> e.info,
                                   shape |-> <<>>, data |-> <<>>, factors |-> <<>>])
    /\ pc' = "idle"

\* checks disabled unless the caller asks for them
default_disable_checks_reversed == TRUE

\* disable_checks=False in the signature
default_disable_checks == FALSE

\* the caller calls field_component with the next argument record; an
\* argument record without disable_checks leaves it to its default
Invoke ==
    /\ pc = "idle"
    /\ Len(returns) < Len(calls)
    /\ LET a == calls[Len(returns) + 1]
       IN  /\ kernel' = a.kernel
           /\ coordinates' = a.coordinates
           /\ prisms' = a.prisms
           /\ pressure' = a.pressure
           /\ material' = a.material
           /\ disable_checks' = IF "disable_checks" \in DOMAIN a
                                THEN a.disable_checks
                                ELSE default_disable_checks
    /\ pc' = "kernel"
    /\ cast' = NoCast
    /\ result' = <<>>
    /\ l' = 0
    /\ m' = 0
    /\ visits' = <<>>
    /\ oob' = FALSE
    /\ scaled' = <<>>
    /\ error' = NoError
    /\ UNCHANGED <<mesh_vars, form_vars, pure_vars>>
    /\ UNCHANGED <<calls, returns>>

\* if kernel not in kernels: raise ValueError
KernelCheck ==
    /\ pc = "kernel"
    /\ IF ~Hashable(kernel)
       THEN Raise([exc |-> "TypeError", what |-> "unhashable", info |-> <<kernel>>])
       ELSE IF ~InKernels(kernel)
       THEN Raise([exc |-> "ValueError", what |-> "kernel", info |-> <<kernel>>])
       ELSE /\ pc' = "broadcast"
            /\ UNCHANGED <<error, returns>>
    /\ UNCHANGED <<mesh_vars, form_vars, pure_vars>>
    /\ UNCHANGED <<calls, kernel, coordinates, prisms, pressure, material,
                   disable_checks, cast, result, l, m, visits, oob, scaled>>

\* cast = np.broadcast(...); result = np.zeros(cast.size); the conversions
Broadcast ==
    /\ pc = "broadcast"
    /\ LET b == np_broadcast(coordinates)
       IN  IF ~b.ok
           THEN /\ Raise([exc |-> "ValueError", what |-> "broadcast", info |-> <<>>])
                /\ UNCHANGED <<cast, result, coordinates, prisms, pressure>>
           ELSE /\ cast' = b
                /\ result' = [n \in 1..b.size |-> LinZero]
                /\ coordinates' = [i \in 1..3 |-> atleast_1d(coordinates[i])]
                /\ prisms' = atleast_2d(prisms)
                /\ pressure' = atleast_1d(pressure)
                /\ pc' = "checks"
                /\ UNCHANGED <<error, returns>>
    /\ UNCHANGED <<mesh_vars, form_vars, pure_vars>>
    /\ UNCHANGED <<calls, kernel, material, disable_checks, l, m, visits, oob, scaled>>

\* if not disable_checks: if pressure.size != prisms.shape[0]: raise ValueError
PressureCheck ==
    /\ pc = "checks"
    /\ IF disable_checks
       THEN /\ pc' = "loop"
            /\ UNCHANGED <<error, returns>>
       ELSE IF pressure_mismatch(Len(pressure), Len(prisms))
       THEN Raise([exc |-> "ValueError", what |-> "pressure",
                   info |-> <<Len(pressure), Len(prisms)>>])
       ELSE /\ pc' = "check_prisms"
            /\ UNCHANGED <<error, returns>>
    /\ UNCHANGED <<mesh_vars, form_vars, pure_vars>>
    /\ UNCHANGED <<calls, kernel, coordinates, prisms, pressure, material,
                   disable_checks, cast, result, l, m, visits, oob, scaled>>

\* _check_prisms(prisms)
PrismsCheck ==
    /\ pc = "check_prisms"
    /\ LET e == _check_prisms(prisms)
       IN  IF e.exc # ""
           THEN Raise(e)
           ELSE /\ pc' = "loop"
                /\ UNCHANGED <<error, returns>>
    /\ UNCHANGED <<mesh_vars, form_vars, pure_vars>>
    /\ UNCHANGED <<calls, kernel, coordinates, prisms, pressure, material,
                   disable_checks, cast, result, l, m, visits, oob, scaled>>

\* jit_field_component: the body of the loops over l and m, once
PrismStep ==
    /\ pc = "loop"
    /\ l < Len(coordinates[1])
    /\ Len(prisms) > 0
    /\ \E g \in Garbage :
         LET past == \/ \E i \in 2..3 : l >= Len(coordinates[i])
                     \/ m >= Len(pressure)
                     \/ l >= Len(result)
             pt == <<coordinates[1][l + 1], Read(coordinates[2], l, g),
                     Read(coordinates[3], l, g)>>
             r == CornerLoop(Read(result, l, LinZero), Lookup(kernel), prisms[m + 1],
                             Read(pressure, m, g), pt, 1)
         IN  /\ oob' = (oob \/ past)
             /\ IF r.exc # ""
                THEN /\ Raise([exc |-> r.exc, what |-> "kernel call", info |-> <<l, m>>])
                     /\ UNCHANGED <<result, l, m, visits>>
                ELSE /\ result' = IF l < Len(result)
                                THEN [result EXCEPT ![l + 1] = r.val]
                                ELSE result
                     /\ visits' = visits \o [n \in 1..Len(Corners) |-> <<l, m>> \o Corners[n]]
                     /\ IF m + 1 < Len(prisms)
                        THEN m' = m + 1 /\ l' = l
                        ELSE m' = 0 /\ l' = l + 1
                     /\ UNCHANGED <<pc, error, returns>>
    /\ UNCHANGED <<mesh_vars, form_vars, pure_vars>>
    /\ UNCHANGED <<calls, kernel, coordinates, prisms, pressure, material,
                   disable_checks, cast, scaled>>

\* result *= -Cm(poisson, young)/(4*np.pi); return result.reshape(cast.shape)
\* (the factor is recorded in units of 1/(4 pi))
ScaleReturn ==
    /\ pc = "loop"
    /\ l >= Len(coordinates[1]) \/ Len(prisms) = 0
    /\ LET cm == Cm(material.poisson, material.young)
           f == Append(scaled, <<-cm.val[1], cm.val[2]>>)
       IN  IF cm.exc # ""
           THEN /\ Raise([exc |-> cm.exc, what |-> "Cm", info |-> <<>>])
                /\ UNCHANGED scaled
           ELSE /\ scaled' = f
                /\ returns' = Append(returns, [exc |-> "", what |-> "", info |-> <<>>,
                                               shape |-> cast.shape, data |-> result,
                                               factors |-> f])
                /\ pc' = "idle"
                /\ UNCHANGED error
    /\ UNCHANGED <<mesh_vars, form_vars, pure_vars>>
    /\ UNCHANGED <<calls, kernel, coordinates, prisms, pressure, material,
                   disable_checks, cast, result, l, m, visits, oob>>

-----------------------------------------------------------------------------
(* The prism mesh builders, in exact rationals <<numerator, denominator>>   *)

RECURSIVE GCD(_, _)
GCD(a, b) == IF b = 0 THEN a ELSE GCD(b, a % b)

\* the rational n/d in lowest terms with a positive denominator (d # 0)
Rat(n, d) ==
    LET g == GCD(Abs(n), Abs(d))
    IN  <<(Sgn(d) * n) \div g, Abs(d) \div g>>

ToRat(n) == <<n, 1>>
\* the sum taken to be its first term
RatAdd_first_term(p, q) == p

RatAdd(p, q) == Rat(p[1] * q[2] + q[1] * p[2], p[2] * q[2])
RatSub(p, q) == Rat(p[1] * q[2] - q[1] * p[2], p[2] * q[2])
RatMul(p, q) == Rat(p[1] * q[1], p[2] * q[2])
RatDiv(p, n) == Rat(p[1], p[2] * n)
\* p <= q taken for p < q
RatLess_or_equal(p, q) == p[1] * q[2] <= q[1] * p[2]

RatLess(p, q) == p[1] * q[2] < q[1] * p[2]
RatLeq(p, q) == p[1] * q[2] <= q[1] * p[2]

\* 0.5 * d taken for d
half_omitted(d) == d

\* 0.5 * d
half(d) == RatDiv(d, 2)

\* the row with bottom and top exchanged
layer_row_top_first(y, dy, x, dx, bottom, top) ==
    <<y, RatAdd(y, dy), x, RatAdd(x, dx), top, bottom>>

\* [y, y+dy, x, x+dx, bottom, top]
layer_row(y, dy, x, dx, bottom, top) ==
    <<y, RatAdd(y, dy), x, RatAdd(x, dx), bottom, top>>

\* the test against the diameter instead of the radius
r_prism_within_diameter(xc, yc, radius) ==
    RatLeq(RatAdd(RatMul(xc, xc), RatMul(yc, yc)),
           RatMul(RatAdd(radius, radius), RatAdd(radius, radius)))

\* np.sqrt(xc**2 + yc**2) <= radius, for radius > 0
r_prism_within(xc, yc, radius) ==
    RatLeq(RatAdd(RatMul(xc, xc), RatMul(yc, yc)), RatMul(radius, radius))

NoFrame == [pc |-> "idle"]

\* the builder raises: the caller records the exception
MeshRaise(exc, msg) ==
    /\ layers' = Append(layers, [exc |-> exc, msg |-> msg, layer |-> <<>>])
    /\ mesh' = NoFrame

\* prism_layer_rectangular up to its loops: asserts, dy, dx
RectangularCall ==
    /\ mesh.pc = "idle"
    /\ Len(layers) < Len(builds)
    /\ LET a == builds[Len(layers) + 1]
           y1 == a.region[1]
           y2 == a.region[2]
           x1 == a.region[3]
           x2 == a.region[4]
       IN  /\ a.fn = "prism_layer_rectangular"
           /\ IF ~RatLess(y1, y2)
              THEN MeshRaise("AssertionError", "y2 must be greater than y1")
              ELSE IF ~RatLess(x1, x2)
              THEN MeshRaise("AssertionError", "x2 must be greater than x1")
              ELSE IF ~RatLess(a.top, a.bottom)
              THEN MeshRaise("AssertionError",
                             "bottom must be greater than top (z points downward)")
              ELSE IF a.shape[1] = 0 \/ a.shape[2] = 0
              THEN MeshRaise("ZeroDivisionError", "float division by zero")
              ELSE /\ mesh' = [pc |-> "rectangular", shape |-> a.shape,
                               bottom |-> a.bottom, top |-> a.top,
                               x1 |-> x1,
                               dy |-> RatDiv(RatSub(y2, y1), a.shape[1]),
                               dx |-> RatDiv(RatSub(x2, x1), a.shape[2]),
                               layer |-> <<>>, y |-> y1, x |-> x1, i |-> 0, j |-> 0]
                   /\ UNCHANGED layers
    /\ UNCHANGED <<builds, field_vars, form_vars, pure_vars>>

\* one pass of the inner loop of prism_layer_rectangular, with the end of the
\* outer pass (y += dy, then x = x1) after the last column
RectangularStep ==
    /\ mesh.pc = "rectangular"
    /\ mesh.i < mesh.shape[1]
    /\ mesh.shape[2] > 0
    /\ LET last == mesh.j + 1 = mesh.shape[2]
       IN  mesh' = [mesh EXCEPT
                      !.layer = Append(@, layer_row(mesh.y, mesh.dy, mesh.x, mesh.dx,
                                                    mesh.bottom, mesh.top)),
                      !.x = IF last THEN mesh.x1 ELSE RatAdd(@, mesh.dx),
                      !.j = IF last THEN 0 ELSE @ + 1,
                      !.y = IF last THEN RatAdd(@, mesh.dy) ELSE @,
                      !.i = IF last THEN @ + 1 ELSE @]
    /\ UNCHANGED <<builds, layers, field_vars, form_vars, pure_vars>>

\* layer = np.array(layer); return layer.  For a negative number of columns
\* range(shape[1]) is empty: the outer passes append nothing
RectangularReturn ==
    /\ mesh.pc = "rectangular"
    /\ mesh.i >= mesh.shape[1] \/ mesh.shape[2] <= 0
    /\ layers' = Append(layers, [exc |-> "", msg |-> "", layer |-> mesh.layer])
    /\ mesh' = NoFrame
    /\ UNCHANGED <<builds, field_vars, form_vars, pure_vars>>

\* prism_layer_circular up to its loops: asserts, bounding square, dy, dx
CircularCall ==
    /\ mesh.pc = "idle"
    /\ Len(layers) < Len(builds)
    /\ LET a == builds[Len(layers) + 1]
           y0 == a.center[1]
           x0 == a.center[2]
           y_min == RatSub(y0, a.radius)
           y_max == RatAdd(y0, a.radius)
           x_min == RatSub(x0, a.radius)
           x_max == RatAdd(x0, a.radius)
           dy == RatDiv(RatSub(y_max, y_min), a.shape[1])
           dx == RatDiv(RatSub(x_max, x_min), a.shape[2])
       IN  /\ a.fn = "prism_layer_circular"
           /\ IF ~RatLess(ToRat(0), a.radius)
              THEN MeshRaise("AssertionError", "radius must be positive")
              ELSE IF ~RatLess(a.top, a.bottom)
              THEN MeshRaise("AssertionError",
                             "bottom must be greater than top (z points downward)")
              ELSE IF a.shape[1] = 0 \/ a.shape[2] = 0
              THEN MeshRaise("ZeroDivisionError", "float division by zero")
              ELSE /\ mesh' = [pc |-> "circular", shape |-> a.shape,
                               bottom |-> a.bottom, top |-> a.top,
                               y0 |-> y0, x0 |-> x0, radius |-> a.radius,
                               x_min |-> x_min, dy |-> dy, dx |-> dx,
                               half_dy |-> half(dy), half_dx |-> half(dx),
                               layer |-> <<>>, y |-> y_min, x |-> x_min,
                               i |-> 0, j |-> 0]
                   /\ UNCHANGED layers
    /\ UNCHANGED <<builds, field_vars, form_vars, pure_vars>>

\* one pass of the inner loop of prism_layer_circular, with the end of the
\* outer pass (y += dy, then x = x_min) after the last column
CircularStep ==
    /\ mesh.pc = "circular"
    /\ mesh.i < mesh.shape[1]
    /\ mesh.shape[2] > 0
    /\ LET last == mesh.j + 1 = mesh.shape[2]
           yc == RatSub(RatAdd(mesh.y, mesh.half_dy), mesh.y0)
           xc == RatSub(RatAdd(mesh.x, mesh.half_dx), mesh.x0)
       IN  mesh' = [mesh EXCEPT
                      !.layer = IF r_prism_within(xc, yc, mesh.radius)
                                THEN Append(@, layer_row(mesh.y, mesh.dy, mesh.x, mesh.dx,
                                                         mesh.bottom, mesh.top))
                                ELSE @,
                      !.x = IF last THEN mesh.x_min ELSE RatAdd(@, mesh.dx),
                      !.j = IF last THEN 0 ELSE @ + 1,
                      !.y = IF last THEN RatAdd(@, mesh.dy) ELSE @,
                      !.i = IF last THEN @ + 1 ELSE @]
    /\ UNCHANGED <<builds, layers, field_vars, form_vars, pure_vars>>

\* layer = np.array(layer); return layer.  For a negative number of columns
\* range(shape[1]) is empty: the outer passes append nothing
CircularReturn ==
    /\ mesh.pc = "circular"
    /\ mesh.i >= mesh.shape[1] \/ mesh.shape[2] <= 0
    /\ layers' = Append(layers, [exc |-> "", msg |-> "", layer |-> mesh.layer])
    /\ mesh' = NoFrame
    /\ UNCHANGED <<builds, field_vars, form_vars, pure_vars>>

NextMesh ==
    \/ RectangularCall
    \/ RectangularStep
    \/ RectangularReturn
    \/ CircularCall
    \/ CircularStep
    \/ CircularReturn

-----------------------------------------------------------------------------
(* The grouped forms d_field_{x,y,z}_component, s_field_{x,y,z}_component   *)

\* the triple of d_field_x_component with its first two kernels exchanged
form_kernels_exchanged ==
    [d_field_x_component |-> <<"d_x2", "d_x1", "d_xz2">>,
     d_field_y_component |-> <<"d_y1", "d_y2", "d_yz2">>,
     d_field_z_component |-> <<"d_z1", "d_z2", "d_zz2">>,
     s_field_x_component |-> <<"s_xz1", "s_xz2", "s_xzz2">>,
     s_field_y_component |-> <<"s_yz1", "s_yz2", "s_yzz2">>,
     s_field_z_component |-> <<"s_zz1", "s_zz2", "s_zzz2">>]

\* the kernel= arguments of the three field_component calls of each form, in
\* the order of its statements and of its return tuple
form_kernels ==
    [d_field_x_component |-> <<"d_x1", "d_x2", "d_xz2">>,
     d_field_y_component |-> <<"d_y1", "d_y2", "d_yz2">>,
     d_field_z_component |-> <<"d_z1", "d_z2", "d_zz2">>,
     s_field_x_component |-> <<"s_xz1", "s_xz2", "s_xzz2">>,
     s_field_y_component |-> <<"s_yz1", "s_yz2", "s_yzz2">>,
     s_field_z_component |-> <<"s_zz1", "s_zz2", "s_zzz2">>]

NoGroup == [pc |-> "idle"]

\* field_component(coordinates, model, DP, poisson, young, kernel=k)
FormInvocation(f, n) ==
    [coordinates |-> f.coordinates, prisms |-> f.model, pressure |-> f.DP,
     material |-> [poisson |-> f.poisson, young |-> f.young],
     kernel |-> Str(form_kernels[f.fn][n])]

\* the caller calls a grouped form, which makes its first call
FormCall ==
    /\ group.pc = "idle"
    /\ pc = "idle"
    /\ Len(returns) = Len(calls)
    /\ Len(triples) < Len(forms)
    /\ LET f == forms[Len(triples) + 1]
       IN  /\ group' = [pc |-> "called", f |-> f, n |-> 1, parts |-> <<>>]
           /\ calls' = Append(calls, FormInvocation(f, 1))
    /\ UNCHANGED <<forms, triples, mesh_vars, pure_vars>>
    /\ UNCHANGED <<returns, pc, kernel, coordinates, prisms, pressure, material,
                   disable_checks, cast, result, l, m, visits, oob, scaled, error>>

\* a call of field_component is over: its exception leaves the form, or its
\* result is kept and the form makes its next call or returns the three
FormResume ==
    /\ group.pc = "called"
    /\ pc = "idle"
    /\ Len(returns) = Len(calls)
    /\ LET r == returns[Len(returns)]
           parts == Append(group.parts, r)
       IN  IF r.exc # ""
           THEN /\ triples' = Append(triples, [exc |-> r.exc, what |-> r.what,
                                               info |-> r.info, triple |-> <<>>])
                /\ group' = NoGroup
                /\ UNCHANGED calls
           ELSE IF group.n = 3
           THEN /\ triples' = Append(triples, [exc |-> "", what |-> "", info |-> <<>>,
                                               triple |-> parts])
                /\ group' = NoGroup
                /\ UNCHANGED calls
           ELSE /\ group' = [group EXCEPT !.n = @ + 1, !.parts = parts]
                /\ calls' = Append(calls, FormInvocation(group.f, group.n + 1))
                /\ UNCHANGED triples
    /\ UNCHANGED <<forms, mesh_vars, pure_vars>>
    /\ UNCHANGED <<returns, pc, kernel, coordinates, prisms, pressure, material,
                   disable_checks, cast, result, l, m, visits, oob, scaled, error>>

-----------------------------------------------------------------------------
\* the steps of field_component
Next ==
    \/ Invoke
    \/ KernelCheck
    \/ Broadcast
    \/ PressureCheck
    \/ PrismsCheck
    \/ PrismStep
    \/ ScaleReturn

\* field_component before the first call
IdleField(cs) ==
    /\ calls = cs
    /\ returns = <<>>
    /\ pc = "idle"
    /\ kernel = Str("")
    /\ coordinates = <<>>
    /\ prisms = <<>>
    /\ pressure = <<>>
    /\ material = [poisson |-> <<0, 1>>, young |-> 1]
    /\ disable_checks = FALSE
    /\ cast = NoCast
    /\ result = <<>>
    /\ l = 0
    /\ m = 0
    /\ visits = <<>>
    /\ oob = FALSE
    /\ scaled = <<>>
    /\ error = NoError

\* the mesh builders before the first call
IdleMesh(bs) ==
    /\ builds = bs
    /\ layers = <<>>
    /\ mesh = NoFrame

\* the state before the first call of field_component, no mesh being built
\* the grouped forms before the first call
IdleForm(fs) ==
    /\ forms = fs
    /\ triples = <<>>
    /\ group = NoGroup

\* the caller is about to make the direct calls ps
IdlePure(ps) ==
    /\ probes = ps
    /\ values = <<>>

Idle(cs) == IdleField(cs) /\ IdleMesh(<<>>) /\ IdleForm(<<>>) /\ IdlePure(<<>>)

\* the steps of the grouped forms and of the calls they make
NextForm ==
    \/ FormCall
    \/ FormResume
    \/ Next

-----------------------------------------------------------------------------
(* Calls with arbitrary selectors, models and pressures (the inputs of      *)
(* test_bad_prisms, test_bad_pressure and test_bad_kernel, scaled down)     *)

\* the two bounds of an axis: in order, equal, out of order
AxisY(kind) == CASE kind = "lt" -> <<Fix(-1), Fix(0)>>
                 [] kind = "eq" -> <<Fix(0), Fix(0)>>
                 [] kind = "gt" -> <<Fix(0), Fix(-1)>>

AxisX(kind) == CASE kind = "lt" -> <<Fix(1), Fix(2)>>
                 [] kind = "eq" -> <<Fix(2), Fix(2)>>
                 [] kind = "gt" -> <<Fix(2), Fix(1)>>

\* <<z2, z1>>: in order means z1 < z2
AxisZ(kind) == CASE kind = "lt" -> <<Fix(3), Fix(1)>>
                 [] kind = "eq" -> <<Fix(3), Fix(3)>>
                 [] kind = "gt" -> <<Fix(1), Fix(3)>>

Row(ky, kx, kz) == AxisY(ky) \o AxisX(kx) \o AxisZ(kz)

RowsCheck ==
    { Row("lt", "lt", "lt"), Row("eq", "eq", "eq"),
      Row("gt", "lt", "lt"), Row("lt", "gt", "lt"), Row("lt", "lt", "gt"),
      Row("gt", "gt", "lt"), Row("lt", "gt", "gt"), Row("gt", "eq", "gt") }

SeqsUpTo(S, n) == UNION {[1..k -> S] : k \in 0..n}

ModelsCheck ==
    {Array2(rows) : rows \in SeqsUpTo(RowsCheck, MaxPrisms)}
        \cup {Array1(row) : row \in RowsCheck}

PressuresCheck ==
    {Scalar(Fix(-10))} \cup {Array1(ps) : ps \in SeqsUpTo({Fix(-10)}, MaxPressure)}

Selectors ==
    {Str(n) : n \in DOMAIN kernels}
        \cup {Str("chdjd"), Str("meuovo"),
              [t |-> "int", s |-> "2", hash |-> TRUE, eq |-> {}],
              [t |-> "NoneType", s |-> "None", hash |-> TRUE, eq |-> {}],
              [t |-> "MyStr", s |-> "d_x1", hash |-> TRUE, eq |-> {"d_x1"}],
              [t |-> "UserString", s |-> "s_zz1", hash |-> TRUE,
               eq |-> {"s_zz1"}],
              [t |-> "list", s |-> "['d_x1']", hash |-> FALSE, eq |-> {}],
              [t |-> "tuple", s |-> "(['d_x1'],)", hash |-> FALSE, eq |-> {}]}

Origin == <<Array1(<<Fix(0)>>), Array1(<<Fix(0)>>), Array1(<<Fix(0)>>)>>

TestMaterial == [poisson |-> <<1, 4>>, young |-> 3300]

ArgsCheck ==
    [coordinates : {Origin}, prisms : ModelsCheck, pressure : PressuresCheck,
     material : {TestMaterial}, kernel : Selectors, disable_checks : {FALSE}]

Init == \E a \in ArgsCheck : Idle(<<a>>)

Spec == Init /\ [][Next]_vars

-----------------------------------------------------------------------------
(* Properties of the validation *)

\* a call has returned or raised, and the next has not started
Finished == pc = "idle" /\ returns # <<>>

\* the arguments and the outcome of the last call made
Args == calls[Len(returns)]
Last == returns[Len(returns)]

RowsOf(p) == IF p.dim = 1 THEN <<p.data>> ELSE p.data

NumPressure(p) == IF p.dim = 0 THEN 1 ELSE Len(p.data)

Malformed(rows) ==
    \E i \in DOMAIN rows :
        rows[i][1] > rows[i][2] \/ rows[i][3] > rows[i][4] \/ rows[i][6] > rows[i][5]

GeometryErrors == {"y1 > y2", "x1 > x2", "z1 > z2"}

\* the eighteen kernel names of the specification
KernelNames ==
    {"d_x1", "d_y1", "d_z1", "d_x2", "d_y2", "d_z2", "d_xz2", "d_yz2", "d_zz2",
     "s_xz1", "s_yz1", "s_zz1", "s_xz2", "s_yz2", "s_zz2",
     "s_xzz2", "s_yzz2", "s_zzz2"}

\* the selector is, or hashes and compares equal to, one of the eighteen names
NamesKernel(sel) == \E n \in KernelNames : n \in sel.eq

\* C1: with checks enabled, a call (with a selector the dict can look up)
\* whose model has a prism with y1 > y2, x1 > x2 or z1 > z2 fails with
\* ValueError, raised by the geometry check when the selector and the pressure
\* count are good; a model with y1 <= y2, x1 <= x2, z1 <= z2 in every prism
\* (equalities included) never fails on geometry grounds.
C1_GeometryChecked ==
    (Finished /\ ~Args.disable_checks /\ Hashable(Args.kernel)) =>
        LET rows == RowsOf(Args.prisms)
        IN  /\ Malformed(rows) => Last.exc = "ValueError"
            /\ (Malformed(rows) /\ NamesKernel(Args.kernel)
                    /\ NumPressure(Args.pressure) = Len(rows))
                 => Last.what \in GeometryErrors
            /\ ~Malformed(rows) => Last.what \notin GeometryErrors

\* a model of two prisms, the second with z1 > z2 only, was rejected for it
C1_Witness ==
    /\ Finished
    /\ ~Args.disable_checks
    /\ Len(RowsOf(Args.prisms)) = 2
    /\ ~Malformed(<<RowsOf(Args.prisms)[1]>>)
    /\ Last.exc = "ValueError"
    /\ Last.what = "z1 > z2"

\* C2: with checks enabled, a call (with a selector the dict can look up)
\* fails with ValueError whenever the number of pressure values differs from
\* the number of prisms, raised by the pressure check when the selector is
\* good; it never fails on this ground when the two counts are equal (a 1-d
\* prism with a scalar pressure counts as 1 and 1).
C2_PressureCountChecked ==
    (Finished /\ ~Args.disable_checks /\ Hashable(Args.kernel)) =>
        LET np == NumPressure(Args.pressure)
            nm == Len(RowsOf(Args.prisms))
        IN  /\ np # nm => Last.exc = "ValueError"
            /\ (np # nm /\ NamesKernel(Args.kernel)) => Last.what = "pressure"
            /\ np = nm => Last.what # "pressure"

\* one pressure value for two well-formed prisms was rejected with both counts
C2_Witness ==
    /\ Finished
    /\ ~Args.disable_checks
    /\ NumPressure(Args.pressure) = 1
    /\ Len(RowsOf(Args.prisms)) = 2
    /\ ~Malformed(RowsOf(Args.prisms))
    /\ Last.exc = "ValueError"
    /\ Last.what = "pressure"
    /\ Last.info = <<1, 2>>

\* C3: field_component accepts exactly the eighteen kernel names, each
\* dispatched to the kernel function of the same name; any other selector
\* value, of whatever type, is rejected with a ValueError naming the selector.
C3_OnlyKernelNamesAccepted ==
    /\ DOMAIN kernels = KernelNames
    /\ \A n \in KernelNames : kernels[n] = "kernel_" \o n
    /\ Finished =>
         IF NamesKernel(Args.kernel)
         THEN Last.what # "kernel" /\ Last.exc # "TypeError"
         ELSE /\ Last.exc = "ValueError"
              /\ Last.what = "kernel"
              /\ Last.info = <<Args.kernel>>

-----------------------------------------------------------------------------
(* One prism against its partition into eight: two calls with the same      *)
(* computation point, kernel and material                                   *)

\* the prism of the additivity test, scaled: y in [-1, 1], x in [0, 2],
\* z2 = 3 (bottom), z1 = 1 (top)
single == <<Fix(-1), Fix(1), Fix(0), Fix(2), Fix(3), Fix(1)>>

\* the eight sub-prisms of P cut at y = cy, x = cx, z = cz, in the order of
\* the test: the deeper four first, each four in the order
\* (low y, low x), (low y, high x), (high y, low x), (high y, high x)
multiple(P, cy, cx, cz) ==
    << <<P[1], cy, P[3], cx, P[5], cz>>,
       <<P[1], cy, cx, P[4], P[5], cz>>,
       <<cy, P[2], P[3], cx, P[5], cz>>,
       <<cy, P[2], cx, P[4], P[5], cz>>,
       <<P[1], cy, P[3], cx, cz, P[6]>>,
       <<P[1], cy, cx, P[4], cz, P[6]>>,
       <<cy, P[2], P[3], cx, cz, P[6]>>,
       <<cy, P[2], cx, P[4], cz, P[6]>> >>

\* computation points on, inside, outside, above and below the prism, with
\* depths of either sign as in the test (z = 2 * rand - 1)
PointsAdd ==
    {<<Array1(<<Fix(y)>>), Array1(<<Fix(x)>>), Array1(<<Fix(z)>>)>> :
        y \in {-1, 0, 2}, x \in {0, 1, 3}, z \in {-3, -2, -1, 0, 2, 4}}

CallsAdd ==
    { << [coordinates |-> c, prisms |-> Array2(<<single>>),
          pressure |-> Scalar(Fix(-10)), material |-> TestMaterial,
          kernel |-> Str(n), disable_checks |-> FALSE],
         [coordinates |-> c,
          prisms |-> Array2(multiple(single, Fix(0), Fix(1), Fix(2))),
          pressure |-> Array1([i \in 1..8 |-> Fix(-10)]), material |-> TestMaterial,
          kernel |-> Str(n), disable_checks |-> FALSE] >> :
        c \in PointsAdd, n \in DOMAIN kernels }

InitAdd == \E cs \in CallsAdd : Idle(cs)

SpecAdd == InitAdd /\ [][Next]_vars

\* C4: for each of the 18 kernels and every computation point, the call for
\* one prism with pressure p and the call for its partition into 8 sub-prisms
\* of pressure p both return, and return the same values.
C4_SingleEqualsMultiple ==
    (pc = "idle" /\ Len(calls) = 2 /\ Len(returns) = 2) =>
        /\ returns[1].exc = ""
        /\ returns[2].exc = ""
        /\ returns[1].data = returns[2].data

-----------------------------------------------------------------------------
(* Calls with several computation points, prisms and pressures, for every   *)
(* kernel; the coordinate arrays may differ in size                         *)

\* the first n elements of s
Prefix(s, n) == [i \in 1..n |-> s[i]]

PointsY == <<Fix(-1), Fix(0), Fix(1), Fix(2)>>
PointsX == <<Fix(1), Fix(3), Fix(0), Fix(2)>>
PointsZ == <<Fix(1), Fix(0), Fix(2), Fix(5)>>

CoordinatesSum ==
    { <<Array1(Prefix(PointsY, ny)), Array1(Prefix(PointsX, nx)), z>> :
        ny \in 1..MaxPoints, nx \in 1..MaxPoints,
        z \in {Scalar(Fix(0))} \cup {Array1(Prefix(PointsZ, nz)) : nz \in 1..MaxPoints} }

RowsSum == {Row("lt", "lt", "lt"), <<Fix(0), Fix(2), Fix(-1), Fix(1), Fix(4), Fix(2)>>}

PressuresSum == <<Fix(-10), Fix(3), Fix(5), Fix(-1)>>

Materials == {TestMaterial, [poisson |-> <<1, 40>>, young |-> 1000]}

ArgsSum ==
    [coordinates : CoordinatesSum,
     prisms : {Array2(rows) : rows \in SeqsUpTo(RowsSum, MaxPrisms)},
     pressure : {Array1(Prefix(PressuresSum, n)) : n \in 0..MaxPressure},
     material : Materials,
     kernel : {Str(n) : n \in DOMAIN kernels},
     disable_checks : {FALSE}]

InitSum == \E a \in ArgsSum : Idle(<<a>>)

SpecSum == InitSum /\ [][Next]_vars

-----------------------------------------------------------------------------
(* Properties of the summation *)

RECURSIVE LinSum(_, _)
LinSum(terms, n) == IF n = 0 THEN LinZero ELSE LinAdd(LinSum(terms, n - 1), terms[n])

\* pressure[m] * (-1)^(i+j+k) * kernel(y_c, x_c, z_c, zc_m, point): i = 0/1
\* selects y2/y1, j = 0/1 selects x2/x1, k = 0/1 selects the sixth/fifth column
CornerTermOf(name, row, p, pt, i, j, k) ==
    LinScale(p * (IF (i + j + k) % 2 = 0 THEN 1 ELSE -1),
             KernelCall("kernel_" \o name,
                        IF i = 0 THEN row[2] ELSE row[1],
                        IF j = 0 THEN row[4] ELSE row[3],
                        IF k = 0 THEN row[6] ELSE row[5],
                        (row[5] + row[6]) \div 2,
                        pt[1], pt[2], pt[3]).val)

\* the sum over every prism and every (i, j, k) in {0,1}^3 at point pt
FieldSum(name, rows, ps, pt) ==
    LinSum([n \in 1..(8 * Len(rows)) |->
               LET mm == (n - 1) \div 8 + 1
                   c == (n - 1) % 8
               IN  CornerTermOf(name, rows[mm], ps[mm], pt,
                                c \div 4, (c \div 2) % 2, c % 2)],
           8 * Len(rows))

\* the computation point at index n (1-based) of the broadcast arrays
BroadcastPoint(c, n) ==
    [i \in 1..3 |-> LET a == atleast_1d(c[i]) IN IF Len(a) = 1 THEN a[1] ELSE a[n]]

\* the point (y[n], x[n], z[n]) the loop reads at index n (1-based)
IndexedPoint(c, n) == [i \in 1..3 |-> atleast_1d(c[i])[n]]

\* the indices at which each of the three coordinate arrays has an element
Indexed(c) == {n \in 1..Len(atleast_1d(c[1])) : \A i \in 1..3 : n <= Len(atleast_1d(c[i]))}

\* the (l, m, i, j, k) of a call with np points and nm prisms
AllVisits(np, nm) ==
    {<<ll, mm, i, j, k>> : ll \in 0..(np - 1), mm \in 0..(nm - 1),
                            i \in {0, 1}, j \in {0, 1}, k \in {0, 1}}

\* C6: a call that returns has, for every computation point l (an index of
\* the loop at which the three coordinate arrays have an element),
\* result[l] = -Cm(poisson, young)/(4 pi) times the sum over every prism m and
\* (i, j, k) in {0,1}^3 of pressure[m] * (-1)^(i+j+k) * kernel(corner, zc_m,
\* point l), with i = 0/1 for y2/y1, j = 0/1 for x2/x1, k = 0/1 for the
\* sixth/fifth column; each corner of each prism was accumulated exactly
\* once, from zero, and the factor was applied exactly once, at the end.
C6_CornerSumScaledOnce ==
    (Finished /\ Last.exc = "" /\ NumPressure(Args.pressure) = Len(RowsOf(Args.prisms))) =>
        LET rows == RowsOf(Args.prisms)
            ps == atleast_1d(Args.pressure)
            np == Len(atleast_1d(Args.coordinates[1]))
            cm == Cm(Args.material.poisson, Args.material.young).val
        IN  /\ \A n \in Indexed(Args.coordinates) :
                 Last.data[n] = FieldSum(Args.kernel.s, rows, ps,
                                         IndexedPoint(Args.coordinates, n))
            /\ Last.factors = << <<-cm[1], cm[2]>> >>
            /\ Len(visits) = 8 * np * Len(rows)
            /\ {visits[n] : n \in DOMAIN visits} = AllVisits(np, Len(rows))

\* two points were summed over two prisms, to different sums that are not zero
C6_Witness ==
    /\ Finished
    /\ Last.exc = ""
    /\ Indexed(Args.coordinates) = {1, 2}
    /\ Len(RowsOf(Args.prisms)) = 2
    /\ Last.data[1] # LinZero
    /\ Last.data[2] # LinZero
    /\ Last.data[1] # Last.data[2]

\* C7: for coordinate arrays broadcastable to a common shape, of equal sizes
\* or not, a call that returns gives an array of the broadcast shape whose
\* every element is the field at the corresponding broadcast point; the loop
\* visits every output slot and indexes no coordinate array past its end.
C7_BroadcastPointsComputed ==
    (Finished /\ Last.exc = "" /\ NumPressure(Args.pressure) = Len(RowsOf(Args.prisms))) =>
        LET b == np_broadcast(Args.coordinates)
            rows == RowsOf(Args.prisms)
        IN  /\ Last.shape = b.shape
            /\ Len(Last.data) = b.size
            /\ \A n \in 1..b.size :
                 Last.data[n] = FieldSum(Args.kernel.s, rows, atleast_1d(Args.pressure),
                                         BroadcastPoint(Args.coordinates, n))
            /\ ~oob
            /\ Len(rows) > 0 =>
                 \A n \in 1..b.size : \E v \in DOMAIN visits : visits[v][1] = n - 1

-----------------------------------------------------------------------------
(* Calls of the mesh builders: a rectangular layer alone, or a circular     *)
(* layer followed by the rectangular layer on its bounding square           *)

MaxShape == 4

ShapesMesh == (0..MaxShape) \X (0..MaxShape)

\* (bottom, top)
DepthsMesh == {<<ToRat(3), ToRat(1)>>, <<ToRat(1), ToRat(1)>>, <<ToRat(1), ToRat(3)>>}

RegionsMesh ==
    {<<ToRat(y1), ToRat(y2), ToRat(x1), ToRat(x2)>> :
        y1 \in {-1, 0, 2}, y2 \in {-1, 0, 2}, x1 \in {0, 3}, x2 \in {0, 3}}

CentersMesh == {<<ToRat(0), ToRat(0)>>, <<ToRat(1), ToRat(-2)>>}

RadiiMesh == {ToRat(0), ToRat(1), ToRat(3), Rat(1, 2)}

rectangular(region, shape, d) ==
    [fn |-> "prism_layer_rectangular", region |-> region, shape |-> shape,
     bottom |-> d[1], top |-> d[2]]

circular(center, radius, shape, d) ==
    [fn |-> "prism_layer_circular", center |-> center, radius |-> radius,
     shape |-> shape, bottom |-> d[1], top |-> d[2]]

\* the square [y0 - radius, y0 + radius] x [x0 - radius, x0 + radius]
BoundingSquare(center, radius) ==
    <<RatSub(center[1], radius), RatAdd(center[1], radius),
      RatSub(center[2], radius), RatAdd(center[2], radius)>>

BuildsMesh ==
    {<<rectangular(g, sh, d)>> : g \in RegionsMesh, sh \in ShapesMesh, d \in DepthsMesh}
    \cup
    {<<circular(c, r, sh, d), rectangular(BoundingSquare(c, r), sh, d)>> :
        c \in CentersMesh, r \in RadiiMesh, sh \in ShapesMesh, d \in DepthsMesh}

InitMesh ==
    \E bs \in BuildsMesh :
        IdleField(<<>>) /\ IdleMesh(bs) /\ IdleForm(<<>>) /\ IdlePure(<<>>)

SpecMesh == InitMesh /\ [][NextMesh]_vars

-----------------------------------------------------------------------------
(* Properties of the mesh builders *)

\* a builder has returned or raised, and the next has not started
Built == mesh.pc = "idle" /\ layers # <<>>

\* the arguments and the outcome of the last builder call made
Build == builds[Len(layers)]
Layer == layers[Len(layers)]

\* C8: prism_layer_rectangular(region, shape = (r, c), bottom, top) with
\* y2 > y1, x2 > x1, bottom > top (and r, c >= 1) returns exactly r*c prisms
\* of size (y2-y1)/r by (x2-x1)/c with z2 = bottom, z1 = top; the prism of
\* cell (i, j), at position i*c + j, spans [y1 + i*dy, y1 + (i+1)*dy] x
\* [x1 + j*dx, x1 + (j+1)*dx], so that neighbours share a bound and the
\* outermost bounds are y1, y2, x1, x2.
C8_RectangularTiles ==
    (/\ Built
     /\ Build.fn = "prism_layer_rectangular"
     /\ RatLess(Build.region[1], Build.region[2])
     /\ RatLess(Build.region[3], Build.region[4])
     /\ RatLess(Build.top, Build.bottom)
     /\ Build.shape[1] >= 1
     /\ Build.shape[2] >= 1) =>
        LET r == Build.shape[1]
            c == Build.shape[2]
            y1 == Build.region[1]
            x1 == Build.region[3]
            dy == RatDiv(RatSub(Build.region[2], y1), r)
            dx == RatDiv(RatSub(Build.region[4], x1), c)
            rows == Layer.layer
        IN  /\ Layer.exc = ""
            /\ Len(rows) = r * c
            /\ \A i \in 0..(r - 1), j \in 0..(c - 1) :
                 rows[i * c + j + 1] =
                    <<RatAdd(y1, RatMul(ToRat(i), dy)), RatAdd(y1, RatMul(ToRat(i + 1), dy)),
                      RatAdd(x1, RatMul(ToRat(j), dx)), RatAdd(x1, RatMul(ToRat(j + 1), dx)),
                      Build.bottom, Build.top>>
            /\ \A n \in 1..(r * c) :
                 /\ RatSub(rows[n][2], rows[n][1]) = dy
                 /\ RatSub(rows[n][4], rows[n][3]) = dx
                 /\ n % c # 0 => rows[n][4] = rows[n + 1][3]
                 /\ n + c <= r * c => rows[n][2] = rows[n + c][1]
            /\ rows[1][1] = y1
            /\ rows[1][3] = x1
            /\ rows[r * c][2] = Build.region[2]
            /\ rows[r * c][4] = Build.region[4]

\* a 3 x 4 layer was built, over a region whose cell sizes are not integers
C8_Witness ==
    /\ Built
    /\ Build.fn = "prism_layer_rectangular"
    /\ Layer.exc = ""
    /\ Build.shape = <<3, 4>>
    /\ Len(Layer.layer) = 12
    /\ Layer.layer[1][2][2] # 1
    /\ Layer.layer[1][4][2] # 1

\* the rows of a layer whose centre is within radius of center, in order
RECURSIVE CentreWithin(_, _, _, _)
CentreWithin(rows, center, radius, n) ==
    IF n = 0 THEN <<>>
    ELSE LET row == rows[n]
             cy == RatSub(RatDiv(RatAdd(row[1], row[2]), 2), center[1])
             cx == RatSub(RatDiv(RatAdd(row[3], row[4]), 2), center[2])
             kept == CentreWithin(rows, center, radius, n - 1)
         IN  IF RatLeq(RatAdd(RatMul(cy, cy), RatMul(cx, cx)), RatMul(radius, radius))
             THEN Append(kept, row)
             ELSE kept

\* a circular layer and the rectangular layer on its bounding square were built
BothBuilt ==
    /\ mesh.pc = "idle"
    /\ Len(layers) = 2
    /\ builds[1].fn = "prism_layer_circular"

ValidCircular ==
    /\ RatLess(ToRat(0), builds[1].radius)
    /\ RatLess(builds[1].top, builds[1].bottom)
    /\ builds[1].shape[1] >= 1
    /\ builds[1].shape[2] >= 1

\* C9: prism_layer_circular(center, radius, shape, bottom, top) returns the
\* subsequence of prism_layer_rectangular on the bounding square [y0-radius,
\* y0+radius] x [x0-radius, x0+radius], with the same shape, bottom and top,
\* of the cells whose centre is at a distance <= radius of center.
C9_CircularSelectsRectangular ==
    (BothBuilt /\ ValidCircular) =>
        /\ layers[1].exc = ""
        /\ layers[2].exc = ""
        /\ layers[1].layer = CentreWithin(layers[2].layer, builds[1].center,
                                          builds[1].radius, Len(layers[2].layer))

\* a 4 x 4 grid off the origin lost cells (its corners) and kept others
C9_Witness ==
    /\ BothBuilt
    /\ builds[1].shape = <<4, 4>>
    /\ builds[1].center # <<ToRat(0), ToRat(0)>>
    /\ Len(layers[2].layer) = 16
    /\ Len(layers[1].layer) = 12
    /\ layers[1].layer[1] = layers[2].layer[2]

\* C10 as stated: prism_layer_circular returns strictly fewer cells than the
\* rows*cols cells of the bounding rectangular tiling, for every grid shape
\* (the radius is always smaller than half the bounding square's diagonal,
\* radius * sqrt 2).
C10_AlwaysFewerCells ==
    (BothBuilt /\ ValidCircular) =>
        Len(layers[1].layer) < builds[1].shape[1] * builds[1].shape[2]

\* the centre of the corner cells of an r x c grid is farther than radius:
\* ((r-1)/r)^2 + ((c-1)/c)^2 > 1
CornersOutside(r, c) == (r - 1) * (r - 1) * c * c + (c - 1) * (c - 1) * r * r > r * r * c * c

\* C10 amended: prism_layer_circular returns at most rows*cols cells, and
\* strictly fewer exactly when the centres of the corner cells are farther
\* than radius from center, ((rows-1)/rows)^2 + ((cols-1)/cols)^2 > 1;
\* coarser grids (1 x n, 2 x 2, 3 x 3, 2 x 4, ...) keep every cell.
C10_FewerCellsIffCornersOutside ==
    (BothBuilt /\ ValidCircular) =>
        LET r == builds[1].shape[1]
            c == builds[1].shape[2]
        IN  /\ Len(layers[1].layer) <= r * c
            /\ Len(layers[2].layer) = r * c
            /\ Len(layers[1].layer) < r * c <=> CornersOutside(r, c)

\* a 3 x 4 grid lost cells, its corner centres being outside the circle
C10_Witness ==
    /\ BothBuilt
    /\ ValidCircular
    /\ builds[1].shape = <<3, 4>>
    /\ CornersOutside(3, 4)
    /\ Len(layers[1].layer) = 8

\* the rational p is greater than the rational q
Greater(p, q) == p[1] * q[2] > q[1] * p[2]

\* the preconditions of a mesh-builder call
Preconditions(b) ==
    IF b.fn = "prism_layer_rectangular"
    THEN /\ Greater(b.region[2], b.region[1])
         /\ Greater(b.region[4], b.region[3])
         /\ Greater(b.bottom, b.top)
    ELSE /\ Greater(b.radius, <<0, 1>>)
         /\ Greater(b.bottom, b.top)

\* C11: prism_layer_rectangular fails when y2 <= y1, x2 <= x1 or
\* bottom <= top, and prism_layer_circular when radius <= 0 or bottom <= top:
\* an AssertionError is raised before any prism is generated (the loops are
\* entered only with the preconditions holding) and no layer is returned; no
\* call whose preconditions hold fails with an AssertionError.
C11_PreconditionsAsserted ==
    /\ mesh.pc # "idle" => Preconditions(builds[Len(layers) + 1])
    /\ Built =>
         /\ ~Preconditions(Build) => (Layer.exc = "AssertionError" /\ Layer.layer = <<>>)
         /\ Preconditions(Build) => Layer.exc # "AssertionError"

\* a rectangular call with y2 = y1, its other arguments good, was rejected
C11_Witness ==
    /\ Built
    /\ Layer.exc = "AssertionError"
    /\ Build.shape = <<2, 2>>
    /\ Build.fn = "prism_layer_rectangular"
    /\ Build.region[1] = Build.region[2]
    /\ Greater(Build.region[4], Build.region[3])
    /\ Greater(Build.bottom, Build.top)

\* the boundary checks a row fails
FailedChecks(row) ==
    {w \in GeometryErrors :
        \/ w = "y1 > y2" /\ row[1] > row[2]
        \/ w = "x1 > x2" /\ row[3] > row[4]
        \/ w = "z1 > z2" /\ row[6] > row[5]}

\* C12: when a model is rejected for malformed geometry, the one message
\* names every offending row of the model, rows failing different boundary
\* checks included, and the check it names is one each reported row failed.
C12_EveryOffendingRowReported ==
    (Finished /\ Last.exc = "ValueError" /\ Last.what \in GeometryErrors) =>
        LET rows == RowsOf(Args.prisms)
            reported == {Last.info[n] : n \in DOMAIN Last.info}
        IN  /\ \A i \in DOMAIN rows : FailedChecks(rows[i]) # {} => rows[i] \in reported
            /\ \A row \in reported : Last.what \in FailedChecks(row)

-----------------------------------------------------------------------------
(* Calls with disable_checks omitted, False and True *)

ArgsOpt ==
    LET SelectorsOpt == {Str("d_x1"), Str("s_zz1"), Str("chdjd"),
                         [t |-> "int", s |-> "2", hash |-> TRUE, eq |-> {}],
                         [t |-> "UserString", s |-> "d_x1", hash |-> TRUE,
                          eq |-> {"d_x1"}],
                         [t |-> "list", s |-> "['d_x1']", hash |-> FALSE,
                          eq |-> {}]}
    IN  [coordinates : {Origin}, prisms : ModelsCheck, pressure : PressuresCheck,
         material : {TestMaterial}, kernel : SelectorsOpt]
        \cup
        [coordinates : {Origin}, prisms : ModelsCheck, pressure : PressuresCheck,
         material : {TestMaterial}, kernel : SelectorsOpt, disable_checks : BOOLEAN]

InitOpt == \E a \in ArgsOpt : Idle(<<a>>)

SpecOpt == InitOpt /\ [][Next]_vars

\* the call passes disable_checks=True
ChecksDisabled(a) == "disable_checks" \in DOMAIN a /\ a.disable_checks

\* C13: disable_checks is an option of the call that defaults to checks
\* enabled.  With it omitted or False, a call with a good selector fails on
\* the pressure count when the counts differ, on the geometry when they agree
\* and a row is malformed, and returns otherwise; with it True neither check
\* runs (no failure on either ground) and the call returns a result for a
\* model with malformed rows; a selector that is not a kernel name is
\* rejected in either case.
C13_ChecksOptional ==
    Finished =>
        LET rows == RowsOf(Args.prisms)
            equal == NumPressure(Args.pressure) = Len(rows)
            good == Hashable(Args.kernel) /\ NamesKernel(Args.kernel)
        IN  /\ (good /\ ~ChecksDisabled(Args)) =>
                 /\ ~equal => (Last.exc = "ValueError" /\ Last.what = "pressure")
                 /\ (equal /\ Malformed(rows)) =>
                        (Last.exc = "ValueError" /\ Last.what \in GeometryErrors)
                 /\ (equal /\ ~Malformed(rows)) => Last.exc = ""
            /\ (good /\ ChecksDisabled(Args)) =>
                 /\ Last.what \notin {"pressure"} \cup GeometryErrors
                 /\ equal => (Last.exc = "" /\ Len(Last.data) = 1)
            /\ ~good => (Last.exc # "" /\ Last.data = <<>>)

\* with checks disabled a model of two prisms with a malformed row gave a
\* result
C13_Witness ==
    /\ Finished
    /\ ChecksDisabled(Args)
    /\ Len(RowsOf(Args.prisms)) = 2
    /\ NumPressure(Args.pressure) = 2
    /\ Malformed(RowsOf(Args.prisms))
    /\ Last.exc = ""
    /\ Len(Last.data) = 1

-----------------------------------------------------------------------------
(* Calls of the grouped forms *)

TwoPoints ==
    <<Array1(Prefix(PointsY, 2)), Array1(Prefix(PointsX, 2)), Array1(Prefix(PointsZ, 2))>>

ArgsForm ==
    [fn : DOMAIN form_kernels,
     coordinates : {Origin, TwoPoints},
     model : {Array2(rows) : rows \in SeqsUpTo(RowsSum \cup {Row("lt", "gt", "lt")}, MaxPrisms)},
     DP : {Array1(Prefix(PressuresSum, n)) : n \in 0..MaxPressure},
     poisson : {TestMaterial.poisson},
     young : {TestMaterial.young}]

InitForm ==
    \E f \in ArgsForm :
        IdleField(<<>>) /\ IdleMesh(<<>>) /\ IdleForm(<<f>>) /\ IdlePure(<<>>)

SpecForm == InitForm /\ [][NextForm]_vars

\* a grouped form has returned or raised
Grouped == group.pc = "idle" /\ triples # <<>>

\* the arguments and the outcome of the last grouped-form call made
Form == forms[Len(triples)]
Triple == triples[Len(triples)]

\* the kernels of each grouped form: 1st system, 2nd system, correction term
RawSubResults ==
    [d_field_x_component |-> <<"d_x1", "d_x2", "d_xz2">>,
     d_field_y_component |-> <<"d_y1", "d_y2", "d_yz2">>,
     d_field_z_component |-> <<"d_z1", "d_z2", "d_zz2">>,
     s_field_x_component |-> <<"s_xz1", "s_xz2", "s_xzz2">>,
     s_field_y_component |-> <<"s_yz1", "s_yz2", "s_yzz2">>,
     s_field_z_component |-> <<"s_zz1", "s_zz2", "s_zzz2">>]

\* C14: each grouped form returns the triple (1st system, 2nd system,
\* correction term) of the results of field_component, checks enabled, on its
\* own arguments with the three kernels of its component, in that order; if
\* the model or the pressure is invalid the ValueError leaves the form and no
\* triple is returned.
C14_GroupedTriple ==
    Grouped =>
        LET rows == RowsOf(Form.model)
            ps == atleast_1d(Form.DP)
            np == Len(atleast_1d(Form.coordinates[1]))
            cm == Cm(Form.poisson, Form.young).val
        IN  /\ \A n \in DOMAIN calls : ~ChecksDisabled(calls[n])
            /\ IF Len(ps) = Len(rows) /\ ~Malformed(rows)
               THEN /\ Triple.exc = ""
                    /\ Len(Triple.triple) = 3
                    /\ \A i \in 1..3 :
                         /\ Triple.triple[i].shape = <<np>>
                         /\ Triple.triple[i].factors = << <<-cm[1], cm[2]>> >>
                         /\ \A n \in 1..np :
                              Triple.triple[i].data[n] =
                                  FieldSum(RawSubResults[Form.fn][i], rows, ps,
                                           IndexedPoint(Form.coordinates, n))
               ELSE /\ Triple.exc = "ValueError"
                    /\ Triple.what \in {"pressure"} \cup GeometryErrors
                    /\ Triple.triple = <<>>
                    /\ Len(calls) = 1

\* d_field_x_component returned three different results for two points and
\* two prisms
C14_Witness ==
    /\ Grouped
    /\ Form.fn = "d_field_x_component"
    /\ Triple.exc = ""
    /\ Len(RowsOf(Form.model)) = 2
    /\ Form.coordinates = TwoPoints
    /\ Triple.triple[1].data # Triple.triple[2].data
    /\ Triple.triple[2].data # Triple.triple[3].data
    /\ Triple.triple[1].data # Triple.triple[3].data
    /\ Triple.triple[3].data[1] # LinZero

-----------------------------------------------------------------------------
(* Order of the checks of field_component *)

\* the first defect of a call in the order selector, pressure count, y
\* bounds, x bounds, z bounds ("" for none)
FirstDefect(a) ==
    LET rows == RowsOf(a.prisms)
    IN  IF ~NamesKernel(a.kernel) THEN "kernel"
        ELSE IF NumPressure(a.pressure) # Len(rows) THEN "pressure"
        ELSE IF \E i \in DOMAIN rows : rows[i][1] > rows[i][2] THEN "y1 > y2"
        ELSE IF \E i \in DOMAIN rows : rows[i][3] > rows[i][4] THEN "x1 > x2"
        ELSE IF \E i \in DOMAIN rows : rows[i][6] > rows[i][5] THEN "z1 > z2"
        ELSE ""

\* C15: with checks enabled, the summation loop starts only for a call
\* without defect; a call that fails with ValueError has accumulated nothing
\* and returns no result; and a call with several defects is rejected for the
\* first in the order kernel selector, pressure count, y bounds, x bounds,
\* z bounds (an unhashable selector being rejected by the selector test
\* itself).
C15_FirstDefectBeforeLoop ==
    /\ (pc = "loop" /\ ~disable_checks) => FirstDefect(calls[Len(returns) + 1]) = ""
    /\ (Finished /\ ~ChecksDisabled(Args)) =>
         /\ Last.exc = "ValueError" => (visits = <<>> /\ Last.data = <<>>)
         /\ FirstDefect(Args) = "" <=> Last.exc = ""
         /\ Hashable(Args.kernel) => Last.what = FirstDefect(Args)
         /\ ~Hashable(Args.kernel) => (Last.what = "unhashable" /\ visits = <<>>)

\* a model with a row bad in z, then a row bad in y, and a pressure value too
\* many was rejected for the pressure count
C15_Witness ==
    /\ Finished
    /\ Len(RowsOf(Args.prisms)) = 2
    /\ RowsOf(Args.prisms)[1][6] > RowsOf(Args.prisms)[1][5]
    /\ RowsOf(Args.prisms)[2][1] > RowsOf(Args.prisms)[2][2]
    /\ NumPressure(Args.pressure) = 1
    /\ Last.exc = "ValueError"
    /\ Last.what = "pressure"
    /\ visits = <<>>

-----------------------------------------------------------------------------
(* The same call made twice *)

InitTwice ==
    \E a \in ArgsSum :
        /\ a.kernel.s \in {"d_x1", "s_zz1"}
        /\ a.material = TestMaterial
        /\ Idle(<<a, a>>)

SpecTwice == InitTwice /\ [][Next]_vars

\* C16: field_component has no side effects: the caller's arrays are never
\* modified, the same inputs give the same result on every call, and the
\* accumulation of a point reads only the coordinate, prism and pressure
\* data and writes only its own output slot.
C16_SameInputsSameResult ==
    /\ [calls EXCEPT ![1] = calls[2]] = calls
    /\ Finished => (Last.exc = "" => ~oob)
    /\ (pc = "idle" /\ Len(returns) = 2) => returns[1] = returns[2]

-----------------------------------------------------------------------------
(* Direct calls of the kernels.  The kernels are module-level functions of *)
(* compaction.py: a caller can apply one to seven numbers.                 *)

\* the caller applies the kernel probes[n].fn to probes[n].args
KernelEvaluate ==
    /\ Len(values) < Len(probes)
    /\ LET p == probes[Len(values) + 1]
           a == p.args
       IN  /\ p.fn \in {kernels[k] : k \in DOMAIN kernels}
           /\ values' = Append(values,
                  KernelCall(p.fn, a[1], a[2], a[3], a[4], a[5], a[6], a[7]))
    /\ UNCHANGED <<probes, field_vars, mesh_vars, form_vars>>

\* Inputs: a component, a corner, two mid-depths and a computation point.
\* The caller applies the 2nd-system kernel at (y, x, z, zc, ...), the
\* 1st-system kernel at (y, x, z - 2*zc, ...) with the same and with another
\* mid-depth, and the 1st-system kernel at (y, x, z, ...) with both.
Components == {"d_x", "d_y", "d_z", "s_xz", "s_yz", "s_zz"}

ProbesKernel(c, y, x, z, zc, zd, zp) ==
    <<[fn |-> kernels[c \o "2"], args |-> <<y, x, z, zc, Fix(0), Fix(0), zp>>],
      [fn |-> kernels[c \o "1"],
       args |-> <<y, x, z - FixMul(Fix(2), zc), zc, Fix(0), Fix(0), zp>>],
      [fn |-> kernels[c \o "1"],
       args |-> <<y, x, z - FixMul(Fix(2), zc), zd, Fix(0), Fix(0), zp>>],
      [fn |-> kernels[c \o "1"], args |-> <<y, x, z, zc, Fix(0), Fix(0), zp>>],
      [fn |-> kernels[c \o "1"], args |-> <<y, x, z, zd, Fix(0), Fix(0), zp>>]>>

InitKernel ==
    \E c \in Components, y \in {Fix(-1), Fix(0), Fix(1)},
       x \in {Fix(-1), Fix(0), Fix(1)}, z \in {Fix(1), Fix(3)},
       zc \in {Fix(0), 1, Fix(2)}, zd \in {Fix(0), 3}, zp \in {Fix(0), Fix(-1)} :
        /\ IdleField(<<>>) /\ IdleMesh(<<>>) /\ IdleForm(<<>>)
        /\ IdlePure(ProbesKernel(c, y, x, z, zc, zd, zp))

SpecKernel == InitKernel /\ [][KernelEvaluate]_vars

\* the direct calls made so far
Evaluated == 1..Len(values)

\* p applies a 2nd-system kernel and q the 1st-system kernel of the same
\* component at the same arguments but z - 2*zc for z, and any mid-depth
ImageOf(p, q) ==
    /\ \E c \in Components : p.fn = kernels[c \o "2"] /\ q.fn = kernels[c \o "1"]
    /\ q.args[3] = p.args[3] - 2 * p.args[4]
    /\ \A n \in {1, 2, 5, 6, 7} : q.args[n] = p.args[n]

\* p and q apply the same 1st-system kernel at arguments that differ at
\* most in the mid-depth zc
SameButMidDepth(p, q) ==
    /\ \E c \in Components : p.fn = kernels[c \o "1"] /\ q.fn = kernels[c \o "1"]
    /\ \A n \in {1, 2, 3, 5, 6, 7} : q.args[n] = p.args[n]

\* C18: a 2nd-system kernel returns what the 1st-system kernel of the same
\* component returns at the corner depth z - 2*zc, whatever mid-depth that
\* call is given; and two calls of a 1st-system kernel that differ only in
\* the mid-depth return the same.
C18_SecondSystemIsImage ==
    \A i \in Evaluated, j \in Evaluated :
        /\ ImageOf(probes[i], probes[j]) => values[i] = values[j]
        /\ SameButMidDepth(probes[i], probes[j]) => values[i] = values[j]

\* all five calls are made for a mid-depth that is not 0 and another one
\* that differs from it; the 2nd-system value is not 0 and differs from the
\* 1st-system value at the unshifted corner
C18_Witness ==
    /\ Len(probes) = 5
    /\ Len(values) = 5
    /\ probes[1].args[4] # 0
    /\ probes[3].args[4] # probes[2].args[4]
    /\ ImageOf(probes[1], probes[3])
    /\ SameButMidDepth(probes[4], probes[5])
    /\ values[1].exc = ""
    /\ values[1].val # LinZero
    /\ values[1] # values[4]

-----------------------------------------------------------------------------
(* geertsma.py: the disk model.  Numbers are exact rationals (Rat).  A     *)
(* distance r = np.sqrt(...) is the non-negative real with a given square. *)
(* The values of the elliptic integrals are not computed: Int1..Int4       *)
(* return a record naming the function and its arguments, with whether the *)
(* float64 result is finite, and Int3 also the parts decided by            *)
(* np.heaviside.  Float division by zero gives nan or inf, with a warning  *)
(* and no exception.                                                       *)

RatAbs(p) == <<Abs(p[1]), p[2]>>

RatNeg(p) == <<-p[1], p[2]>>

\* 0.0 / 0.0
NaN == <<0, 0>>

\* a / b for finite floats; s / 0.0 for s # 0 is inf with the sign of s,
\* written <<Sgn(s), 0>>
true_divide(a, b) ==
    IF b[1] = 0
    THEN IF a[1] = 0 THEN NaN ELSE <<Sgn(a[1]), 0>>
    ELSE Rat(a[1] * b[2], a[2] * b[1])

\* np.sqrt(s), s >= 0
sqrt(s) == [square |-> s]

\* a rational with the sign of r - R (r a distance, R a rational)
Minus(r, R) ==
    IF R[1] < 0 THEN ToRat(1) ELSE RatSub(r.square, RatMul(R, R))

\* the step with value 0 at 0
heaviside_zero_at_zero(x1, x2) ==
    IF x1[1] < 0 THEN ToRat(0)
    ELSE IF x1[1] = 0 THEN ToRat(0)
    ELSE ToRat(1)

\* np.heaviside(x1, x2): 0 if x1 < 0, x2 if x1 = 0, 1 if x1 > 0
heaviside(x1, x2) ==
    IF x1[1] < 0 THEN ToRat(0)
    ELSE IF x1[1] = 0 THEN x2
    ELSE ToRat(1)

\* Whether Int1..Int4 are finite at (q, r, R), for q >= 0 and R > 0:
\* m = 4*R*r/(q**2 + (r+R)**2) is 0 for r = 0, where the denominators with
\* sqrt(m*r*R) or sqrt(r*R) vanish (0/0), and 1 for q = 0 and r = R, where
\* ellipk(m) is inf and 1 - m vanishes
FiniteInt(q, r, R) ==
    /\ r.square[1] # 0
    /\ ~(q[1] = 0 /\ Minus(r, R)[1] = 0)

Int1(q, r, R) == [fn |-> "Int1", q |-> q, r |-> r, R |-> R,
                  finite |-> FiniteInt(q, r, R)]

Int2(q, r, R) == [fn |-> "Int2", q |-> q, r |-> r, R |-> R,
                  finite |-> FiniteInt(q, r, R)]

\* I3 = -q*sqrt(m)*K0/(2*pi*R*sqrt(r*R)) + lamb_coefficient*lamb/(2*R) + third
Int3(q, r, R) ==
    [fn |-> "Int3", q |-> q, r |-> r, R |-> R,
     finite |-> FiniteInt(q, r, R),
     lamb_coefficient |->
         RatSub(heaviside(Minus(r, R), Rat(1, 2)),
                heaviside(RatNeg(Minus(r, R)), Rat(1, 2))),
     third |-> true_divide(heaviside(RatNeg(Minus(r, R)), Rat(1, 2)), R)]

Int4(q, r, R) == [fn |-> "Int4", q |-> q, r |-> r, R |-> R,
                  finite |-> FiniteInt(q, r, R)]

\* the caller applies Int3 to probes[n].args
Int3Evaluate ==
    /\ Len(values) < Len(probes)
    /\ LET p == probes[Len(values) + 1]
       IN  /\ p.fn = "Int3"
           /\ values' = Append(values, Int3(p.args[1], p.args[2], p.args[3]))
    /\ UNCHANGED <<probes, field_vars, mesh_vars, form_vars>>

\* Inputs: q > 0, r > 0 and R > 0 as in test_Int3, with r below, at and
\* above R; one or two calls
ProbesInt3 ==
    [fn : {"Int3"},
     args : {<<q, sqrt(RatMul(r, r)), R>> :
                q \in {Rat(2, 5), ToRat(1), ToRat(2)},
                r \in {Rat(1, 5), Rat(2, 5), ToRat(1), Rat(6, 5), ToRat(2), ToRat(3)},
                R \in {ToRat(1), Rat(6, 5), ToRat(2)}}]

InitInt3 ==
    \E p \in ProbesInt3, q \in ProbesInt3, n \in 1..2 :
        /\ IdleField(<<>>) /\ IdleMesh(<<>>) /\ IdleForm(<<>>)
        /\ IdlePure(IF n = 1 THEN <<p>> ELSE <<p, q>>)

SpecInt3 == InitInt3 /\ [][Int3Evaluate]_vars

\* C19 as stated: at r = R the coefficient of the lambda term is 0 and the
\* third term step(R-r)/R is 0 (a step that is 0 at 0); elsewhere the step
\* is 1 for a positive argument and 0 for a negative one.
C19_StepZeroAtZero ==
    \A n \in Evaluated :
        LET a == probes[n].args
            d == Minus(a[2], a[3])
        IN  /\ d[1] > 0 => /\ values[n].lamb_coefficient = ToRat(1)
                            /\ values[n].third = ToRat(0)
            /\ d[1] < 0 => /\ values[n].lamb_coefficient = ToRat(-1)
                            /\ values[n].third = true_divide(ToRat(1), a[3])
            /\ d[1] = 0 => /\ values[n].lamb_coefficient = ToRat(0)
                            /\ values[n].third = ToRat(0)

\* C19, amended: the step of Int3 is 1 for a positive argument, 0 for a
\* negative one and 1/2 at 0; at r = R the coefficient of the lambda term
\* is 0 and the third term is (1/2)/R.
C19_StepHalfAtZero ==
    \A n \in Evaluated :
        LET a == probes[n].args
            d == Minus(a[2], a[3])
        IN  /\ d[1] > 0 => /\ values[n].lamb_coefficient = ToRat(1)
                            /\ values[n].third = ToRat(0)
            /\ d[1] < 0 => /\ values[n].lamb_coefficient = ToRat(-1)
                            /\ values[n].third = true_divide(ToRat(1), a[3])
            /\ d[1] = 0 => /\ values[n].lamb_coefficient = ToRat(0)
                            /\ values[n].third =
                                   true_divide(Rat(1, 2), a[3])

\* Int3 has been applied at r = R with a finite result
C19_Witness ==
    \E n \in Evaluated :
        /\ Minus(probes[n].args[2], probes[n].args[3])[1] = 0
        /\ values[n].finite
        /\ values[n].third # ToRat(0)

-----------------------------------------------------------------------------
(* geertsma: displacement of the disk model.  coordinates is the 2-d array *)
(* <<row of y, row of x, row of z>>, model a sequence of rows of six       *)
(* numbers.  An element of ur or uz is a record: the terms accumulated for *)
(* the model entries, whether the float64 sum is finite, and the factor    *)
(* cm*R*h/2 it is multiplied by at the end.                                *)

\* (zp-zc)*I3/np.abs(zp-zc) as a multiple of a finite I3: the factor
\* (zp-zc)/|zp-zc|, which is 0.0/0.0 for zp = zc
depth_factor(zp, zc) ==
    true_divide(RatSub(zp, zc), RatAbs(RatSub(zp, zc)))

\* the term of model entry mod in ur[obs]
ur_term(yp, xp, zp, row, dp, poisson, R) ==
    LET yc == RatDiv(RatAdd(row[2], row[1]), 2)
        xc == RatDiv(RatAdd(row[4], row[3]), 2)
        zc == RatDiv(RatAdd(row[5], row[6]), 2)
        r == sqrt(RatAdd(RatAdd(RatMul(RatSub(yp, yc), RatSub(yp, yc)),
                                RatMul(RatSub(xp, xc), RatSub(xp, xc))),
                         RatMul(RatSub(zp, zc), RatSub(zp, zc))))
    IN  [DP |-> RatNeg(dp),
         near |-> Int1(RatAbs(RatSub(zp, zc)), r, R),
         image_coefficient |-> RatSub(ToRat(3), RatMul(ToRat(4), poisson)),
         image |-> Int1(RatAdd(zp, zc), r, R),
         correction_coefficient |-> RatNeg(RatMul(ToRat(2), zp)),
         correction |-> Int2(RatAdd(zp, zc), r, R)]

\* the term of model entry mod in uz[obs]
uz_term(yp, xp, zp, row, dp, poisson, R) ==
    LET yc == RatDiv(RatAdd(row[2], row[1]), 2)
        xc == RatDiv(RatAdd(row[4], row[3]), 2)
        zc == RatDiv(RatAdd(row[5], row[6]), 2)
        r == sqrt(RatAdd(RatAdd(RatMul(RatSub(yp, yc), RatSub(yp, yc)),
                                RatMul(RatSub(xp, xc), RatSub(xp, xc))),
                         RatMul(RatSub(zp, zc), RatSub(zp, zc))))
    IN  [DP |-> dp,
         factor |-> depth_factor(zp, zc),
         near |-> Int3(RatAbs(RatSub(zp, zc)), r, R),
         image_coefficient |-> RatNeg(RatSub(ToRat(3), RatMul(ToRat(4), poisson))),
         image |-> Int3(RatAdd(zp, zc), r, R),
         correction_coefficient |-> RatNeg(RatMul(ToRat(2), zp)),
         correction |-> Int4(RatAdd(zp, zc), r, R)]

\* a sum of float64 terms is finite iff every term is (no term is nan or
\* inf; the inputs are finite)
FiniteTerm(t) ==
    /\ t.near.finite
    /\ t.image.finite
    /\ t.correction.finite
    /\ "factor" \in DOMAIN t => t.factor[2] # 0

\* (coords stands for the parameter coordinates)
geertsma(coords, model, DP, cm, poisson, R, h) ==
    LET Np == Len(coords[1])
        scale == RatDiv(RatMul(RatMul(cm, R), h), 2)
        ur(obs) ==
            [mod \in 1..Len(model) |->
                ur_term(coords[1][obs], coords[2][obs],
                        coords[3][obs], model[mod], DP[mod], poisson, R)]
        uz(obs) ==
            [mod \in 1..Len(model) |->
                uz_term(coords[1][obs], coords[2][obs],
                        coords[3][obs], model[mod], DP[mod], poisson, R)]
    IN  [ur |-> [obs \in 1..Np |->
                    [terms |-> ur(obs),
                     finite |-> \A mod \in 1..Len(model) : FiniteTerm(ur(obs)[mod]),
                     scale |-> scale]],
         uz |-> [obs \in 1..Np |->
                    [terms |-> uz(obs),
                     finite |-> \A mod \in 1..Len(model) : FiniteTerm(uz(obs)[mod]),
                     scale |-> scale]]]

\* the caller calls geertsma with probes[n].args
GeertsmaCall ==
    /\ Len(values) < Len(probes)
    /\ LET p == probes[Len(values) + 1]
           a == p.args
       IN  /\ p.fn = "geertsma"
           /\ values' = Append(values,
                  geertsma(a.coordinates, a.model, a.DP, a.cm, a.poisson, a.R, a.h))
    /\ UNCHANGED <<probes, field_vars, mesh_vars, form_vars>>

\* Inputs: one or two observation points on the axis or beside the disk,
\* at the surface and at depth; one or two disks of thickness 2 centred on
\* the axis at mid-depth 2 or 3, pressure change -10; radius 1 or 2
ArgsGeertsma ==
    LET Points == {<<ToRat(y), ToRat(0), ToRat(z)>> : y \in {0, 3}, z \in {0, 2, 3}}
        Rows == {<<ToRat(-1), ToRat(1), ToRat(-1), ToRat(1),
                   ToRat(zc + 1), ToRat(zc - 1)>> : zc \in {2, 3}}
        Coordinates ==
            {<<<<p[1]>>, <<p[2]>>, <<p[3]>>>> : p \in Points}
            \cup {<<<<p[1], q[1]>>, <<p[2], q[2]>>, <<p[3], q[3]>>>> :
                      p \in Points, q \in Points}
        Models == {<<a>> : a \in Rows} \cup {<<a, b>> : a \in Rows, b \in Rows}
    IN  {[coordinates |-> c, model |-> mo,
          DP |-> [n \in 1..Len(mo) |-> ToRat(-10)],
          cm |-> Rat(1, 1000), poisson |-> Rat(1, 4), R |-> ToRat(R), h |-> ToRat(2)] :
            c \in Coordinates, mo \in Models, R \in {1, 2}}

InitGeertsma ==
    \E a \in ArgsGeertsma :
        /\ IdleField(<<>>) /\ IdleMesh(<<>>) /\ IdleForm(<<>>)
        /\ IdlePure(<<[fn |-> "geertsma", args |-> a]>>)

SpecGeertsma == InitGeertsma /\ [][GeertsmaCall]_vars

\* the mid-depth of a model row
MidDepth(row) == RatDiv(RatAdd(row[5], row[6]), 2)

\* C20: in every call of geertsma, for every observation point and model
\* entry, the factor of Int3(|zp-zc|, r, R) in uz is sign(zp-zc), one of
\* -1, 0, +1 (0 at zp = zc), and uz of an observation point whose
\* integrals are all finite is finite.
C20_FactorIsSign ==
    \A n \in Evaluated :
        LET a == probes[n].args
            uz == values[n].uz
        IN  \A obs \in 1..Len(uz) :
                /\ \A mod \in 1..Len(a.model) :
                       uz[obs].terms[mod].factor =
                           ToRat(Sgn(RatSub(a.coordinates[3][obs],
                                            MidDepth(a.model[mod]))[1]))
                /\ (\A mod \in 1..Len(a.model) :
                        /\ uz[obs].terms[mod].near.finite
                        /\ uz[obs].terms[mod].image.finite
                        /\ uz[obs].terms[mod].correction.finite)
                   => uz[obs].finite

-----------------------------------------------------------------------------
(* Stress at the free surface *)

\* the indices of the computation points of the grouped-form call f that lie
\* on the surface, zp = 0
SurfacePoints(f) ==
    {n \in 1..Len(atleast_1d(f.coordinates[3])) :
        atleast_1d(f.coordinates[3])[n] = 0}

\* every prism of the model lies strictly below the surface: 0 < z1 <= z2,
\* z1 the sixth column and z2 the fifth
BelowSurface(rows) ==
    \A i \in DOMAIN rows : 0 < rows[i][6] /\ rows[i][6] <= rows[i][5]

\* C21: when a grouped stress form returns for a model whose prisms all lie
\* strictly below the surface, then at every computation point with zp = 0
\* the 2nd-system result is minus the 1st-system result for s_field_x and
\* s_field_y and equals it for s_field_z, and the correction result is 0;
\* and a call whose points all have zp = 0 does return, given a valid model
\* and pressure.
C21_SurfaceRelations ==
    (Grouped /\ Form.fn \in {"s_field_x_component", "s_field_y_component",
                              "s_field_z_component"}
             /\ BelowSurface(RowsOf(Form.model))) =>
        /\ (/\ ~Malformed(RowsOf(Form.model))
            /\ Len(atleast_1d(Form.DP)) = Len(RowsOf(Form.model))
            /\ SurfacePoints(Form) = 1..Len(atleast_1d(Form.coordinates[3])))
           => Triple.exc = ""
        /\ Triple.exc = "" =>
              \A n \in SurfacePoints(Form) :
                  /\ Triple.triple[2].data[n] =
                         IF Form.fn = "s_field_z_component"
                         THEN Triple.triple[1].data[n]
                         ELSE LinNeg(Triple.triple[1].data[n])
                  /\ Triple.triple[3].data[n] = LinZero

\* s_field_x_component returned for two prisms below the surface and two
\* points: at the point on the surface the 1st-system result is not 0, at
\* the point off the surface the correction result is not 0
C21_Witness ==
    /\ Grouped
    /\ Form.fn = "s_field_x_component"
    /\ Triple.exc = ""
    /\ Len(RowsOf(Form.model)) = 2
    /\ BelowSurface(RowsOf(Form.model))
    /\ Form.coordinates = TwoPoints
    /\ SurfacePoints(Form) = {2}
    /\ Triple.triple[1].data[2] # LinZero
    /\ Triple.triple[3].data[1] # LinZero

-----------------------------------------------------------------------------
(* Degenerate prisms and prisms without pressure change *)

\* Inputs: three calls with the same kernel and point: a model of no or one
\* prism; that model with a degenerate prism (y1 = y2, x1 = x2, z1 = z2 or
\* all three) of non-zero pressure appended; that model with a proper prism
\* of pressure 0 appended.  The points lie on, inside and outside the prisms.
CallsNull ==
    LET Points == {<<Array1(<<Fix(y)>>), Array1(<<Fix(x)>>), Array1(<<Fix(z)>>)>> :
                      y \in {0, 2}, x \in {1, 3}, z \in {-2, 0, 2}}
        Degenerate ==
            { <<Fix(1), Fix(1), Fix(0), Fix(2), Fix(3), Fix(1)>>,
              <<Fix(-1), Fix(1), Fix(2), Fix(2), Fix(3), Fix(1)>>,
              <<Fix(-1), Fix(1), Fix(0), Fix(2), Fix(2), Fix(2)>>,
              <<Fix(0), Fix(0), Fix(1), Fix(1), Fix(2), Fix(2)>> }
        Proper == <<Fix(0), Fix(2), Fix(-1), Fix(1), Fix(4), Fix(2)>>
        Call(c, n, rows, ps) ==
            [coordinates |-> c, prisms |-> Array2(rows), pressure |-> Array1(ps),
             material |-> TestMaterial, kernel |-> Str(n), disable_checks |-> FALSE]
    IN  { << Call(c, n, base, [i \in DOMAIN base |-> Fix(-10)]),
             Call(c, n, Append(base, d), Append([i \in DOMAIN base |-> Fix(-10)], p)),
             Call(c, n, Append(base, Proper),
                  Append([i \in DOMAIN base |-> Fix(-10)], Fix(0))) >> :
            c \in Points, n \in DOMAIN kernels, base \in {<<>>, <<single>>},
            d \in Degenerate, p \in {Fix(-10), Fix(3)} }

InitNull == \E cs \in CallsNull : Idle(cs)

SpecNull == InitNull /\ [][Next]_vars

\* the kernel of call a raises nothing at any corner of the last prism of
\* a's model, for a's computation point
DefinedAtAppended(a) ==
    LET rows == RowsOf(a.prisms)
        row == rows[Len(rows)]
    IN  \A i \in {0, 1}, j \in {0, 1}, k \in {0, 1} :
            KernelCall("kernel_" \o a.kernel.s,
                       IF i = 0 THEN row[2] ELSE row[1],
                       IF j = 0 THEN row[4] ELSE row[3],
                       IF k = 0 THEN row[6] ELSE row[5],
                       (row[5] + row[6]) \div 2,
                       IndexedPoint(a.coordinates, 1)[1],
                       IndexedPoint(a.coordinates, 1)[2],
                       IndexedPoint(a.coordinates, 1)[3]).exc = ""

\* C22: a model with a degenerate prism appended (any pressure), or with a
\* prism of pressure 0 appended, is not rejected by the validation, and
\* where the kernel is defined for the appended prism and the call on the
\* model alone returns, the call returns the same result as on the model
\* alone; it never returns another result.
C22_NullPrisms ==
    (pc = "idle" /\ Len(calls) = 3 /\ Len(returns) = 3) =>
        \A n \in {2, 3} :
            /\ returns[n].exc # "ValueError"
            /\ (returns[1].exc = "" /\ DefinedAtAppended(calls[n]))
                   => returns[n].exc = ""
            /\ returns[n].exc = "" =>
                   /\ returns[1].exc = ""
                   /\ returns[n].data = returns[1].data
                   /\ returns[n].factors = returns[1].factors
                   /\ returns[n].shape = returns[1].shape

\* the three calls returned the same non-zero result for a model of one
\* prism, the appended degenerate prism having equal y bounds
C22_Witness ==
    /\ pc = "idle"
    /\ Len(calls) = 3
    /\ Len(returns) = 3
    /\ Len(RowsOf(calls[1].prisms)) = 1
    /\ RowsOf(calls[2].prisms)[2][1] = RowsOf(calls[2].prisms)[2][2]
    /\ RowsOf(calls[2].prisms)[2][3] # RowsOf(calls[2].prisms)[2][4]
    /\ returns[1].exc = ""
    /\ returns[2].exc = ""
    /\ returns[3].exc = ""
    /\ returns[1].data[1] # LinZero
    /\ returns[2].data = returns[1].data
    /\ returns[3].data = returns[1].data

-----------------------------------------------------------------------------
(* The layers of the mesh builders as models of field_component *)

Lcm(a, b) == (a * b) \div GCD(a, b)

\* each row of a layer in units of 1/d, d the least common multiple of the
\* denominators of its six entries: integers in the same order as the
\* entries of the row they stand for (the validation compares entries of
\* one row only)
Integral(rows) ==
    [n \in DOMAIN rows |->
        LET row == rows[n]
            d == Lcm(Lcm(Lcm(row[1][2], row[2][2]), Lcm(row[3][2], row[4][2])),
                     Lcm(row[5][2], row[6][2]))
        IN  [c \in 1..6 |-> row[c][1] * (d \div row[c][2])]]

\* C23: a builder call that meets its preconditions, with a shape of
\* positive integers, returns rows (y1, y2, x1, x2, bottom, top) with
\* y1 < y2, x1 < x2 and top < bottom, which the geometry validation of
\* field_component (z2 the fifth column, z1 the sixth) accepts; and the layer
\* of prism_layer_circular has at least one row.
C23_LayersAreValidModels ==
    (Built /\ Preconditions(Build) /\ Build.shape[1] >= 1 /\ Build.shape[2] >= 1) =>
        /\ Layer.exc = ""
        /\ \A n \in DOMAIN Layer.layer :
               LET row == Layer.layer[n]
               IN  /\ Len(row) = 6
                   /\ row[5] = Build.bottom
                   /\ row[6] = Build.top
                   /\ RatLess(row[1], row[2])
                   /\ RatLess(row[3], row[4])
                   /\ RatLess(row[6], row[5])
        /\ _check_prisms(Integral(Layer.layer)) = NoError
        /\ Build.fn = "prism_layer_circular" => Len(Layer.layer) >= 1

\* prism_layer_circular returned a layer for a 3 x 4 grid of radius 1/2
\* about a centre off the origin, having dropped cells of the grid
C23_Witness ==
    /\ Built
    /\ Build.fn = "prism_layer_circular"
    /\ Build.shape = <<3, 4>>
    /\ Build.radius = Rat(1, 2)
    /\ Build.center = <<ToRat(1), ToRat(-2)>>
    /\ Layer.exc = ""
    /\ Len(Layer.layer) \in 1..11
    /\ Layer.layer[1][1][2] # 1

====
